---- MODULE Spec2Model ----
(***************************************************************************)
(* Metadata resolution and decision pipeline of flowforge.                 *)
(*                                                                         *)
(*   - transformRules  (src/app/main/types.ts)        SpecRules            *)
(*   - makeNetworkRequest (src/unnamed/part_004)      SpecNet              *)
(*   - fetchAllMetadata (src/unnamed/part_001)        SpecFetch            *)
(*   - workflow:run + runPipeline                     SpecRun              *)
(*   - registerIpc (src/app/main/ipc)                 SpecIpc              *)
(*                                                                         *)
(* JavaScript strings are sequences of one-character strings, so that      *)
(* toLowerCase, trim, split and includes are computed, not assumed.        *)
(* An optional value (T | undefined) is a sequence of length 0 or 1.       *)
(***************************************************************************)
EXTENDS Integers, Sequences, FiniteSets, TLC

VARIABLES
    \* applyTransformRules(rows, metadata, domainKeywords, companyName)
    rows, metadata, domainKeywords, companyName, transformedData, tpc,
    \* makeNetworkRequest: the module-level map and the requests with their closures
    pendingAuthRequests, req,
    \* fetchAllMetadata(idguids, apiUrl, credentials, onProgress) and its environment
    fpc, idguids, server, onProgress, warmUpResponse, cookieHeader, batches, batchIndex,
    post, results, fmetadata, completed, progress,
    \* the workflow:run handler, runPipeline and the files they touch
    wpc, request, inputFile, service, settings, sourceData, runIdguids, runMetadata,
    missingIds, pipeline, files, handlerResult,
    \* registerIpc: the module-level guard, the handlers ipcMain holds, the calls made
    registered, channels, ipcCalls

rulesVars == <<rows, metadata, domainKeywords, companyName, transformedData, tpc>>

netVars == <<pendingAuthRequests, req>>

fetchVars == <<fpc, idguids, server, onProgress, warmUpResponse, cookieHeader, batches,
               batchIndex,
               post, results, fmetadata, completed, progress>>

runVars == <<wpc, request, inputFile, service, settings, sourceData, runIdguids,
             runMetadata, missingIds, pipeline, files, handlerResult>>

ipcVars == <<registered, channels, ipcCalls>>

vars == <<rulesVars, netVars, fetchVars, runVars, ipcVars>>

----------------------------------------------------------------------------
(* Optional values *)

None == <<>>

Some(x) == <<x>>

IsSome(o) == Len(o) > 0

Val(o) == o[1]

----------------------------------------------------------------------------
(* JavaScript string primitives *)

UpperCaseLetters ==
    <<"A", "B", "C", "D", "E", "F", "G", "H", "I", "J", "K", "L", "M",
      "N", "O", "P", "Q", "R", "S", "T", "U", "V", "W", "X", "Y", "Z">>

LowerCaseLetters ==
    <<"a", "b", "c", "d", "e", "f", "g", "h", "i", "j", "k", "l", "m",
      "n", "o", "p", "q", "r", "s", "t", "u", "v", "w", "x", "y", "z">>

ToLowerChar(c) ==
    IF \E i \in 1..Len(UpperCaseLetters) : UpperCaseLetters[i] = c
    THEN LowerCaseLetters[CHOOSE i \in 1..Len(UpperCaseLetters) : UpperCaseLetters[i] = c]
    ELSE c

\* String.prototype.toLowerCase
ToLowerCase(s) == [i \in 1..Len(s) |-> ToLowerChar(s[i])]

\* the white space String.prototype.trim and the regular expression \s strip
IsWhiteSpace(c) == c \in {" ", "\t"}

\* String.prototype.trim
Trim(s) ==
    IF \A i \in 1..Len(s) : IsWhiteSpace(s[i])
    THEN <<>>
    ELSE LET first == CHOOSE i \in 1..Len(s) :
                          /\ ~IsWhiteSpace(s[i])
                          /\ \A j \in 1..(i - 1) : IsWhiteSpace(s[j])
             last  == CHOOSE i \in 1..Len(s) :
                          /\ ~IsWhiteSpace(s[i])
                          /\ \A j \in (i + 1)..Len(s) : IsWhiteSpace(s[j])
         IN  SubSeq(s, first, last)

\* String.prototype.includes
Includes(s, t) ==
    \E i \in 0..(Len(s) - Len(t)) : SubSeq(s, i + 1, i + Len(t)) = t

RECURSIVE Split(_, _)
\* String.prototype.split with a one-character separator
Split(s, sep) ==
    IF \A i \in 1..Len(s) : s[i] # sep
    THEN <<s>>
    ELSE LET k == CHOOSE i \in 1..Len(s) :
                      s[i] = sep /\ \A j \in 1..(i - 1) : s[j] # sep
         IN  <<SubSeq(s, 1, k - 1)>> \o Split(SubSeq(s, k + 1, Len(s)), sep)

RECURSIVE SplitWhiteSpace(_)
\* s.split(/\s+/).filter(p => p.length > 0): the maximal runs without white space
SplitWhiteSpace(s) ==
    LET t == Trim(s)
    IN  IF t = <<>>
        THEN <<>>
        ELSE IF \A i \in 1..Len(t) : ~IsWhiteSpace(t[i])
             THEN <<t>>
             ELSE LET k == CHOOSE i \in 1..Len(t) :
                               IsWhiteSpace(t[i]) /\ \A j \in 1..(i - 1) : ~IsWhiteSpace(t[j])
                  IN  <<SubSeq(t, 1, k - 1)>> \o SplitWhiteSpace(SubSeq(t, k + 1, Len(t)))

SeqToSet(q) == {q[i] : i \in 1..Len(q)}

DigitChars == <<"0", "1", "2", "3", "4", "5", "6", "7", "8", "9">>

RECURSIVE NumberToString(_)
\* String(n) for a non-negative integer
NumberToString(n) ==
    IF n < 10
    THEN <<DigitChars[n + 1]>>
    ELSE NumberToString(n \div 10) \o <<DigitChars[(n % 10) + 1]>>

----------------------------------------------------------------------------
(* JavaScript values of a DataRow cell: string | number | boolean | null *)

JStr(s) == [t |-> "string", s |-> s]

JNum(n) == [t |-> "number", n |-> n]

JBool(b) == [t |-> "boolean", b |-> b]

JNull == [t |-> "null"]

\* ToBoolean of a cell (an absent property, undefined, is None)
Truthy(o) ==
    /\ IsSome(o)
    /\ LET v == Val(o)
       IN  CASE v.t = "string"  -> v.s # <<>>
             [] v.t = "number"  -> v.n # 0
             [] v.t = "boolean" -> v.b
             [] OTHER           -> FALSE

\* String(v)
JsString(v) ==
    CASE v.t = "string"  -> v.s
      [] v.t = "number"  -> NumberToString(v.n)
      [] v.t = "boolean" -> IF v.b THEN <<"t", "r", "u", "e">> ELSE <<"f", "a", "l", "s", "e">>
      [] OTHER           -> <<"n", "u", "l", "l">>

----------------------------------------------------------------------------
(* JavaScript objects: the own properties in enumeration order            *)
(* (OrdinaryOwnPropertyKeys: array-index keys ascending, then the other   *)
(* keys in insertion order).                                              *)

ArrayIndexKeys == <<"0", "1", "2">>

IsArrayIndex(k) == \E i \in 1..Len(ArrayIndexKeys) : ArrayIndexKeys[i] = k

IndexOf(k) == CHOOSE i \in 1..Len(ArrayIndexKeys) : ArrayIndexKeys[i] = k

HasKey(obj, k) == \E i \in 1..Len(obj) : obj[i].k = k

\* obj[k]
ObjGet(obj, k) ==
    IF HasKey(obj, k)
    THEN Some(obj[CHOOSE i \in 1..Len(obj) : obj[i].k = k].v)
    ELSE None

\* obj[k] = v
ObjSet(obj, k, v) ==
    IF HasKey(obj, k)
    THEN [i \in 1..Len(obj) |-> IF obj[i].k = k THEN [k |-> k, v |-> v] ELSE obj[i]]
    ELSE IF IsArrayIndex(k)
         THEN LET before == {i \in 1..Len(obj) :
                                IsArrayIndex(obj[i].k) /\ IndexOf(obj[i].k) < IndexOf(k)}
                  n == Cardinality(before)
              IN  SubSeq(obj, 1, n) \o <<[k |-> k, v |-> v]>> \o SubSeq(obj, n + 1, Len(obj))
         ELSE Append(obj, [k |-> k, v |-> v])

RECURSIVE ObjFrom(_)
\* an object literal: the properties of the list assigned in order
ObjFrom(pairs) ==
    IF pairs = <<>>
    THEN <<>>
    ELSE ObjSet(ObjFrom(SubSeq(pairs, 1, Len(pairs) - 1)),
                pairs[Len(pairs)][1], pairs[Len(pairs)][2])

\* Object.keys
ObjKeys(obj) == [i \in 1..Len(obj) |-> obj[i].k]

\* Map.prototype.get on a Map modelled as a function
MapGet(m, key) == IF key \in DOMAIN m THEN Some(m[key]) ELSE None

----------------------------------------------------------------------------
(* Transformation rules (src/app/main/types.ts) *)

\* "N"
S_N ==
    <<"N">>

\* "Y"
S_Y ==
    <<"Y">>

\* "No verification rule matched"
S_NoRule ==
    <<"N", "o", " ", "v", "e", "r", "i", "f", "i", "c", "a", "t", "i", "o", "n", " ", "r", "u", "l", "e", " ", "m", "a", "t", "c", "h", "e", "d">>

\* "Email matches user metadata"
S_EmailMatches ==
    <<"E", "m", "a", "i", "l", " ", "m", "a", "t", "c", "h", "e", "s", " ", "u", "s", "e", "r", " ", "m", "e", "t", "a", "d", "a", "t", "a">>

\* "Email contains user name ("
S_ContainsPrefix ==
    <<"E", "m", "a", "i", "l", " ", "c", "o", "n", "t", "a", "i", "n", "s", " ", "u", "s", "e", "r", " ", "n", "a", "m", "e", " ", "(">>

\* "Email is under "
S_UnderPrefix ==
    <<"E", "m", "a", "i", "l", " ", "i", "s", " ", "u", "n", "d", "e", "r", " ">>

\* " domain"
S_UnderSuffix ==
    <<" ", "d", "o", "m", "a", "i", "n">>

\* "company"
S_company ==
    <<"c", "o", "m", "p", "a", "n", "y">>

\* "Product type is Social Good"
S_SocialGoodReason ==
    <<"P", "r", "o", "d", "u", "c", "t", " ", "t", "y", "p", "e", " ", "i", "s", " ", "S", "o", "c", "i", "a", "l", " ", "G", "o", "o", "d">>

\* "social good"
S_social_good ==
    <<"s", "o", "c", "i", "a", "l", " ", "g", "o", "o", "d">>

normalizeEmail(email) == Trim(ToLowerCase(email))

\* the set of lower-cased pieces of the local part, split by each separator alone
extractNameParts(email) ==
    IF email = <<>> \/ ~Includes(email, <<"@">>)
    THEN {}
    ELSE LET localPart == ToLowerCase(Split(email, "@")[1])
         IN  {Trim(part) : part \in
                 {p \in UNION {SeqToSet(Split(localPart, sep)) : sep \in {".", "_", "-", "+"}} :
                     Trim(p) # <<>>}}

\* the addresses compared as written, without normalizeEmail
checkEmailMatchesMetadata_AsWritten(orderEmail, primaryEmailOrList) ==
    IF orderEmail = <<>> \/ ~IsSome(primaryEmailOrList)
    THEN FALSE
    ELSE LET p == Val(primaryEmailOrList)
         IN  IF p.t = "array"
             THEN \E i \in 1..Len(p.a) : p.a[i] # <<>> /\ p.a[i] = orderEmail
             ELSE p.s # <<>> /\ p.s = orderEmail

\* primaryEmailOrList: None (undefined), [t |-> "array", a |-> <<...>>] or JStr(s)
checkEmailMatchesMetadata(orderEmail, primaryEmailOrList) ==
    IF orderEmail = <<>> \/ ~IsSome(primaryEmailOrList)
    THEN FALSE
    ELSE LET p == Val(primaryEmailOrList)
             normalizedOrder == normalizeEmail(orderEmail)
         IN  IF p.t = "array"
             THEN \E i \in 1..Len(p.a) :
                      p.a[i] # <<>> /\ normalizeEmail(p.a[i]) = normalizedOrder
             ELSE p.s # <<>> /\ normalizeEmail(p.s) = normalizedOrder

\* the helper closure of checkEmailContainsName
checkNameParts(emailParts, name) ==
    LET nameLower == Trim(ToLowerCase(name))
    IN  \/ nameLower \in emailParts
        \/ \E part \in emailParts : Includes(part, nameLower)
        \/ /\ Includes(nameLower, <<" ">>)
           /\ \E namePart \in SeqToSet(SplitWhiteSpace(nameLower)) :
                  \/ namePart \in emailParts
                  \/ \E part \in emailParts : Includes(part, namePart)

\* firstName, lastName: optional strings
checkEmailContainsName(orderEmail, firstName, lastName) ==
    IF orderEmail = <<>>
    THEN FALSE
    ELSE LET emailParts == extractNameParts(orderEmail)
         IN  \/ IsSome(firstName) /\ Val(firstName) # <<>>
                    /\ checkNameParts(emailParts, Val(firstName))
             \/ IsSome(lastName) /\ Val(lastName) # <<>>
                    /\ checkNameParts(emailParts, Val(lastName))

\* keywords: a (possibly absent) list of strings
checkCompanyDomain(orderEmail, keywords) ==
    IF orderEmail = <<>> \/ ~Includes(orderEmail, <<"@">>)
    THEN FALSE
    ELSE IF ~IsSome(keywords) \/ Len(Val(keywords)) = 0
         THEN FALSE
         ELSE LET emailParts == Split(orderEmail, "@")
                  domain == ToLowerCase(emailParts[2])
              IN  \E i \in 1..Len(Val(keywords)) :
                      Includes(domain, ToLowerCase(Val(keywords)[i]))

checkSocialGood(productType) ==
    IF productType = <<>>
    THEN FALSE
    ELSE ToLowerCase(Trim(productType)) = S_social_good

\* String(row[column] || '')
CellString(row, column) ==
    IF Truthy(ObjGet(row, column)) THEN JsString(Val(ObjGet(row, column))) ELSE <<>>

\* metadata?.get(userIdGuid): the metadata map itself is optional
UserMetaOf(row, meta) ==
    IF IsSome(meta) THEN MapGet(Val(meta), CellString(row, "User Name")) ELSE None

\* userMeta.emails ?? userMeta.email
EmailsOrEmail(userMeta) ==
    IF IsSome(userMeta.emails)
    THEN Some([t |-> "array", a |-> Val(userMeta.emails)])
    ELSE Some(JStr(userMeta.email))

\* the conditions of the if / else-if chain of applyTransformRules, one per rule
RuleMatches(n, row, meta, keywords) ==
    LET orderEmail == CellString(row, "Email Address")
        productType == CellString(row, "Product Type")
        userMeta == UserMetaOf(row, meta)
    IN  CASE n = 1 -> /\ IsSome(userMeta)
                      /\ checkEmailMatchesMetadata(orderEmail, EmailsOrEmail(Val(userMeta)))
          [] n = 2 -> /\ IsSome(userMeta)
                      /\ checkEmailContainsName(orderEmail, Val(userMeta).first_name,
                                                Val(userMeta).last_name)
          [] n = 3 -> /\ IsSome(keywords) /\ Len(Val(keywords)) > 0
                      /\ checkCompanyDomain(orderEmail, keywords)
          [] n = 4 -> checkSocialGood(productType)
          [] OTHER -> FALSE

RuleOrder == <<1, 2, 3, 4>>

\* the branch of the chain that is taken: the first rule of RuleOrder that matches, 0 when none
FiredRule(row, meta, keywords) ==
    IF \E i \in 1..Len(RuleOrder) : RuleMatches(RuleOrder[i], row, meta, keywords)
    THEN RuleOrder[CHOOSE i \in 1..Len(RuleOrder) :
                       /\ RuleMatches(RuleOrder[i], row, meta, keywords)
                       /\ \A j \in 1..(i - 1) : ~RuleMatches(RuleOrder[j], row, meta, keywords)]
    ELSE 0

OrEmptyString(o) == IF IsSome(o) THEN Val(o) ELSE <<>>

\* the reason assigned in branch n
ReasonOf(n, row, meta, company) ==
    CASE n = 1 -> S_EmailMatches
      [] n = 2 -> LET userMeta == Val(UserMetaOf(row, meta))
                      fullName == Trim(OrEmptyString(userMeta.first_name) \o <<" ">>
                                       \o OrEmptyString(userMeta.last_name))
                  IN  S_ContainsPrefix \o fullName \o <<")">>
      [] n = 3 -> LET displayName == IF IsSome(company) /\ Val(company) # <<>>
                                     THEN Val(company) ELSE S_company
                  IN  S_UnderPrefix \o displayName \o S_UnderSuffix
      [] n = 4 -> S_SocialGoodReason
      [] OTHER -> S_NoRule

DecisionOf(n) == IF n = 0 THEN S_N ELSE S_Y

RECURSIVE CopyFields(_, _)
\* for (const [key, value] of Object.entries(row)) outputRow[key] = value
CopyFields(outputRow, entries) ==
    IF entries = <<>>
    THEN outputRow
    ELSE CopyFields(ObjSet(outputRow, entries[1].k, entries[1].v), Tail(entries))

\* the callback of rows.map: one output row
TransformRow(row, meta, keywords, company) ==
    LET n == FiredRule(row, meta, keywords)
        outputRow == ObjFrom(<< <<"Decision", JStr(DecisionOf(n))>>,
                                <<"Reason", JStr(ReasonOf(n, row, meta, company))>> >>)
    IN  CopyFields(outputRow, row)

applyTransformRules(rs, meta, keywords, company) ==
    [i \in 1..Len(rs) |-> TransformRow(rs[i], meta, keywords, company)]

----------------------------------------------------------------------------
(* Inputs of the transformation: rows as the parsers deliver them,         *)
(* metadata as fetchUserMetadata builds it, settings as stored.            *)

\* "u1"
S_u1 ==
    <<"u", "1">>

\* "u9"
S_u9 ==
    <<"u", "9">>

\* "jo.doe@corp.co"
E_exact ==
    <<"j", "o", ".", "d", "o", "e", "@", "c", "o", "r", "p", ".", "c", "o">>

\* " Jo.Doe@Corp.co "
E_exactCase ==
    <<" ", "J", "o", ".", "D", "o", "e", "@", "C", "o", "r", "p", ".", "c", "o", " ">>

\* "jd@alt.co"
E_alt ==
    <<"j", "d", "@", "a", "l", "t", ".", "c", "o">>

\* "jo.x@corp.co"
E_name ==
    <<"j", "o", ".", "x", "@", "c", "o", "r", "p", ".", "c", "o">>

\* "z@corp.co"
E_domain ==
    <<"z", "@", "c", "o", "r", "p", ".", "c", "o">>

\* "z@x.co"
E_none ==
    <<"z", "@", "x", ".", "c", "o">>

\* "\"j@d\"@corp.co": an address with a quoted local part
E_quoted ==
    <<"\"", "j", "@", "d", "\"", "@", "c", "o", "r", "p", ".", "c", "o">>

\* "corp@x.co"
E_local ==
    <<"c", "o", "r", "p", "@", "x", ".", "c", "o">>

\* "corp.co"
E_noAt ==
    <<"c", "o", "r", "p", ".", "c", "o">>

\* "Jo\tAnn": two words separated by a tab
S_JoTabAnn ==
    <<"J", "o", "\t", "A", "n", "n">>

\* "Van Doe"
S_VanDoe ==
    <<"V", "a", "n", " ", "D", "o", "e">>

\* " ": a name that is blank
S_blank ==
    <<" ">>

\* "Jo"
S_Jo ==
    <<"J", "o">>

\* "Doe"
S_Doe ==
    <<"D", "o", "e">>

\* "corp"
S_corp ==
    <<"c", "o", "r", "p">>

\* "CORP"
S_CORP ==
    <<"C", "O", "R", "P">>

\* "Acme"
S_Acme ==
    <<"A", "c", "m", "e">>

\* "regular"
S_regular ==
    <<"r", "e", "g", "u", "l", "a", "r">>

\* " Social Good "
S_SocialGoodMixed ==
    <<" ", "S", "o", "c", "i", "a", "l", " ", "G", "o", "o", "d", " ">>

\* "old"
S_old ==
    <<"o", "l", "d">>

\* "12345"
S_12345 ==
    <<"1", "2", "3", "4", "5">>

OrderRow(email, user, productType) ==
    ObjFrom(<< <<"Email Address", JStr(email)>>, <<"User Name", user>>,
               <<"Product Type", JStr(productType)>> >>)

RowPool ==
    { OrderRow(E_exact, JStr(S_u1), S_social_good),
      OrderRow(E_exactCase, JStr(S_u1), S_regular),
      OrderRow(E_alt, JStr(S_u1), S_regular),
      OrderRow(E_name, JStr(S_u1), S_SocialGoodMixed),
      OrderRow(E_domain, JStr(S_u1), S_social_good),
      OrderRow(E_none, JStr(S_u9), S_SocialGoodMixed),
      OrderRow(E_none, JStr(S_u1), S_regular),
      OrderRow(E_quoted, JStr(S_u9), S_regular),
      OrderRow(E_local, JStr(S_u9), S_regular),
      OrderRow(E_noAt, JStr(S_u9), S_regular),
      ObjFrom(<< <<"Other", JStr(S_old)>> >>),
      \* the output of an earlier run read back as input
      ObjFrom(<< <<"Decision", JStr(S_N)>>, <<"Reason", JStr(S_old)>>,
                 <<"Email Address", JStr(E_exact)>>, <<"User Name", JStr(S_u1)>>,
                 <<"Product Type", JStr(S_regular)>> >>),
      \* a sheet with a numeric column header
      ObjFrom(<< <<"Email Address", JStr(E_none)>>, <<"User Name", JStr(S_u9)>>,
                 <<"Product Type", JStr(S_regular)>>, <<"1", JNum(5)>> >>),
      \* cells of every scalar type
      ObjFrom(<< <<"Email Address", JStr(E_domain)>>, <<"User Name", JNum(7)>>,
                 <<"Product Type", JBool(TRUE)>>, <<"Order ID", JStr(S_12345)>>,
                 <<"Amount", JNum(100)>>, <<"Note", JNull>> >>) }

UserMetadata(id, email, emails, first, last) ==
    [user_id |-> id, email |-> email, emails |-> emails,
     first_name |-> first, last_name |-> last]

MetadataPool ==
    { None,
      Some([k \in {} |-> None]),
      Some([k \in {S_u1} |->
               UserMetadata(S_u1, E_exact, Some(<<E_exact, E_alt>>), Some(S_Jo), Some(S_Doe))]),
      Some([k \in {S_u1} |-> UserMetadata(S_u1, E_exact, None, None, Some(S_Doe))]),
      Some([k \in {S_u1} |-> UserMetadata(S_u1, <<>>, None, None, None)]),
      \* names as the server holds them: words separated by a tab or by a
      \* blank, and names that are blank
      Some([k \in {S_u1} |->
               UserMetadata(S_u1, E_alt, Some(<<E_alt>>), Some(S_JoTabAnn), Some(S_VanDoe))]),
      Some([k \in {S_u1} |->
               UserMetadata(S_u1, E_alt, Some(<<E_alt>>), Some(S_blank), Some(S_blank))]) }

\* <<emailDomainKeywords, companyName>> of the settings
SettingsPool ==
    { <<None, None>>,
      <<Some(<<>>), Some(<<>>)>>,
      <<Some(<<S_corp>>), Some(S_Acme)>>,
      <<Some(<<S_CORP, S_Acme>>), None>> }

MaxRows == 2

RECURSIVE SeqsUpTo(_, _)
SeqsUpTo(S, n) ==
    IF n = 0
    THEN {<<>>}
    ELSE LET shorter == SeqsUpTo(S, n - 1)
         IN  shorter \cup {Append(q, x) : q \in {r \in shorter : Len(r) = n - 1}, x \in S}

\* TransformRow and FiredRule tabulated over the rows, metadata maps and
\* settings of the pools: the record and the branch of the callback of rows.map
TransformedRow ==
    [row \in RowPool |-> [meta \in MetadataPool |-> [st \in SettingsPool |->
        TransformRow(row, meta, st[1], st[2])]]]

FiredRuleOf ==
    [row \in RowPool |-> [meta \in MetadataPool |-> [st \in SettingsPool |->
        FiredRule(row, meta, st[1])]]]

IdleRules ==
    /\ rows = <<>>
    /\ metadata = None
    /\ domainKeywords = None
    /\ companyName = None
    /\ transformedData = <<>>
    /\ tpc = "idle"

----------------------------------------------------------------------------
(* Network layer (src/unnamed/part_004): makeNetworkRequest *)

MaxRequests == 2

MaxChallenges == 3

ReqIds == 1..MaxRequests

Url(protocol, host, path) == [protocol |-> protocol, host |-> host, path |-> path]

UrlPool ==
    { Url("https:", "a.test", "/SiteUser/GetUser/"),
      Url("https:", "b.test", "/") }

\* `${urlObj.protocol}//${urlObj.host}`
BaseUrlOf(url) == url.protocol \o "//" \o url.host

BaseUrls == {BaseUrlOf(u) : u \in UrlPool}

NtlmCredentials(domain, username, password) ==
    [domain |-> domain, username |-> username, password |-> password]

CredentialPool ==
    { NtlmCredentials("CORP", "jo", "pw1"),
      NtlmCredentials("", "ann", "pw2") }

\* creds.domain ? `${creds.domain}\\${creds.username}` : creds.username
FormatUsername(creds) ==
    IF creds.domain # "" THEN creds.domain \o "\\" \o creds.username ELSE creds.username

\* callback(username, password) and callback()
Explicit(username, password) ==
    [explicit |-> TRUE, username |-> username, password |-> password]

Ambient == [explicit |-> FALSE]

NoRequest == [state |-> "none"]

IdleNet ==
    /\ pendingAuthRequests = [b \in BaseUrls |-> None]
    /\ req = [r \in ReqIds |-> NoRequest]

\* pendingAuthRequests after the executor of the promise: set(baseUrl, credentials)
StoreCredentials(pending, baseUrl, credentials) ==
    IF IsSome(credentials)
    THEN [pending EXCEPT ![baseUrl] = credentials]
    ELSE pending

\* the request with its closure variables after the executor ran (request.end())
NewRequest(url, credentials) ==
    [state |-> "open", url |-> url, baseUrl |-> BaseUrlOf(url),
     credentials |-> credentials, authAttempted |-> FALSE, answers |-> <<>>]

\* the branch of the login handler: creds && !authAttempted
SuppliesCredentials(creds, authAttempted) == IsSome(creds) /\ ~authAttempted

\* what the login handler passes to the callback
LoginAnswer(creds, authAttempted) ==
    IF SuppliesCredentials(creds, authAttempted)
    THEN Explicit(FormatUsername(Val(creds)), Val(creds).password)
    ELSE Ambient

\* the login handler without the assignment authAttempted = true
AuthAttemptedAfter_NeverSet(creds, authAttempted) == authAttempted

\* authAttempted after the login handler
AuthAttemptedAfter(creds, authAttempted) ==
    IF SuppliesCredentials(creds, authAttempted) THEN TRUE ELSE authAttempted

\* the entry of the origin is left in the map
DeleteCredentials_EntryKept(pending, baseUrl) == pending

\* pendingAuthRequests.delete(baseUrl)
DeleteCredentials(pending, baseUrl) == [pending EXCEPT ![baseUrl] = None]

\* makeNetworkRequest(url, method, headers, body, credentials): the synchronous
\* executor, up to request.end(); requests take the free slots in order
MakeNetworkRequest(r, url, credentials) ==
    /\ req[r].state = "none"
    /\ \A q \in 1..(r - 1) : req[q].state # "none"
    /\ pendingAuthRequests' = StoreCredentials(pendingAuthRequests, BaseUrlOf(url), credentials)
    /\ req' = [req EXCEPT ![r] = NewRequest(url, credentials)]

RECURSIVE SumUpTo(_, _)
SumUpTo(f, n) == IF n = 0 THEN 0 ELSE f[n] + SumUpTo(f, n - 1)

\* the login events delivered so far, over all requests
ChallengesSeen ==
    SumUpTo([r \in ReqIds |-> IF req[r].state = "none" THEN 0 ELSE Len(req[r].answers)],
            MaxRequests)

\* request.on('login'): an authentication challenge for request r
OnLogin(r) ==
    /\ req[r].state = "open"
    /\ ChallengesSeen < MaxChallenges
    /\ LET creds == pendingAuthRequests[req[r].baseUrl]
       IN  req' = [req EXCEPT
                      ![r].answers = Append(@, LoginAnswer(creds, req[r].authAttempted)),
                      ![r].authAttempted = AuthAttemptedAfter(creds, @)]
    /\ UNCHANGED pendingAuthRequests

\* request.on('response'): status and headers are collected
OnResponse(r) ==
    /\ req[r].state = "open"
    /\ req' = [req EXCEPT ![r].state = "response"]
    /\ UNCHANGED pendingAuthRequests

\* response.on('end'): the promise resolves
OnEnd(r) ==
    /\ req[r].state = "response"
    /\ pendingAuthRequests' = DeleteCredentials(pendingAuthRequests, req[r].baseUrl)
    /\ req' = [req EXCEPT ![r].state = "resolved"]

\* request.on('error'): the promise rejects
OnError(r) ==
    /\ req[r].state = "open"
    /\ pendingAuthRequests' = DeleteCredentials(pendingAuthRequests, req[r].baseUrl)
    /\ req' = [req EXCEPT ![r].state = "rejected"]

----------------------------------------------------------------------------
(* Metadata resolver (src/unnamed/part_001): responses of the service *)

\* "application/json"
S_applicationJson ==
    <<"a", "p", "p", "l", "i", "c", "a", "t", "i", "o", "n", "/", "j", "s", "o", "n">>

\* "content-type"
S_contentType ==
    <<"c", "o", "n", "t", "e", "n", "t", "-", "t", "y", "p", "e">>

\* "Content-Type"
S_ContentTypeRaw ==
    <<"C", "o", "n", "t", "e", "n", "t", "-", "T", "y", "p", "e">>

\* "set-cookie"
S_setCookie ==
    <<"s", "e", "t", "-", "c", "o", "o", "k", "i", "e">>

\* "Set-Cookie"
S_SetCookieRaw ==
    <<"S", "e", "t", "-", "C", "o", "o", "k", "i", "e">>

\* "application/json; charset=utf-8"
CT_json ==
    <<"a", "p", "p", "l", "i", "c", "a", "t", "i", "o", "n", "/", "j", "s", "o", "n", ";", " ", "c", "h", "a", "r", "s", "e", "t", "=", "u", "t", "f", "-", "8">>

\* "Application/JSON"
CT_jsonUpper ==
    <<"A", "p", "p", "l", "i", "c", "a", "t", "i", "o", "n", "/", "J", "S", "O", "N">>

\* "text/html"
CT_html ==
    <<"t", "e", "x", "t", "/", "h", "t", "m", "l">>

\* "email"
S_email ==
    <<"e", "m", "a", "i", "l">>

\* "AltEmail"
N_altEmail ==
    <<"A", "l", "t", "E", "m", "a", "i", "l">>

\* "Phone"
N_phone ==
    <<"P", "h", "o", "n", "e">>

\* "555"
V_phone ==
    <<"5", "5", "5">>

\* " jo.doe@corp.co "
E_padded ==
    <<" ", "j", "o", ".", "d", "o", "e", "@", "c", "o", "r", "p", ".", "c", "o", " ">>

\* "EXT1"
S_EXT1 ==
    <<"E", "X", "T", "1">>

\* "sid=1; Path=/; HttpOnly"
C_sid ==
    <<"s", "i", "d", "=", "1", ";", " ", "P", "a", "t", "h", "=", "/", ";", " ", "H", "t", "t", "p", "O", "n", "l", "y">>

\* "b=2"
C_b ==
    <<"b", "=", "2">>

\* the outcome of makeNetworkRequest: the promise rejects ...
NetworkError == [kind |-> "error"]

\* ... or resolves with status, headers and body
HttpResponse(status, rawHeaders, body) ==
    [kind |-> "response", status |-> status, rawHeaders |-> rawHeaders, body |-> body]

\* response headers as makeNetworkRequest collects them from rawHeaders:
\* responseHeaders[name.toLowerCase()] = value, for every pair with both non-empty
CollectHeaders(rawHeaders) ==
    LET kept == {i \in 1..Len(rawHeaders) : rawHeaders[i][1] # <<>> /\ rawHeaders[i][2] # <<>>}
        names == {ToLowerCase(rawHeaders[i][1]) : i \in kept}
    IN  [name \in names |->
            rawHeaders[CHOOSE i \in kept :
                           /\ ToLowerCase(rawHeaders[i][1]) = name
                           /\ \A j \in kept : ToLowerCase(rawHeaders[j][1]) = name => j <= i][2]]

\* bodies: text JSON.parse rejects, the text "null", or the text of an object
BodyInvalid == [json |-> "invalid"]

BodyNull == [json |-> "null"]

BodyObject(data) == [json |-> "object", data |-> data]

ApiUserMetadata(idguid, externalCode, userName, email, first, last, meta) ==
    [IDGUID |-> idguid, ExternalCode |-> externalCode, UserName |-> userName,
     Email |-> email, FirstName |-> first, LastName |-> last, Metadata |-> meta]

MetaEntry(name, value) == [Name |-> name, StoredValue |-> value]

JsonHeaders == << <<S_ContentTypeRaw, CT_json>> >>

\* what the service answers for a subject id, by kind of answer
ResponseOfKind(kind, id) ==
    CASE kind = "ok" ->
             HttpResponse(200, JsonHeaders,
                 BodyObject(ApiUserMetadata(Some(id), None, None, Some(E_padded),
                     Some(S_Jo), Some(S_Doe),
                     Some(<<MetaEntry(Some(N_altEmail), Some(E_alt)),
                            MetaEntry(Some(N_phone), Some(V_phone)),
                            MetaEntry(Some(S_email), Some(E_exact))>>))))
      [] kind = "okCode" ->
             HttpResponse(201, << <<S_ContentTypeRaw, CT_jsonUpper>> >>,
                 BodyObject(ApiUserMetadata(Some(id), Some(S_EXT1), Some(S_Jo), Some(E_exact),
                     None, None, None)))
      [] kind = "okMetaOnly" ->
             HttpResponse(200, JsonHeaders,
                 BodyObject(ApiUserMetadata(Some(id), None, None, Some(<<" ">>),
                     None, Some(S_Doe),
                     Some(<<MetaEntry(Some(N_altEmail), Some(E_alt))>>))))
      [] kind = "okNoEmail" ->
             HttpResponse(200, JsonHeaders,
                 BodyObject(ApiUserMetadata(Some(id), None, None, None,
                     Some(S_Jo), None,
                     Some(<<MetaEntry(Some(N_phone), Some(V_phone)),
                            MetaEntry(Some(N_altEmail), Some(<<" ">>))>>))))
      [] kind = "status500" ->
             HttpResponse(500, JsonHeaders,
                 BodyObject(ApiUserMetadata(Some(id), None, None, Some(E_exact),
                     None, None, None)))
      [] kind = "status401" -> HttpResponse(401, <<>>, BodyInvalid)
      [] kind = "html" ->
             HttpResponse(200, << <<S_ContentTypeRaw, CT_html>> >>, BodyInvalid)
      [] kind = "noContentType" ->
             HttpResponse(200, <<>>,
                 BodyObject(ApiUserMetadata(Some(id), None, None, Some(E_exact),
                     None, None, None)))
      [] kind = "badJson" -> HttpResponse(200, JsonHeaders, BodyInvalid)
      [] kind = "nullJson" -> HttpResponse(200, JsonHeaders, BodyNull)
      [] kind = "noGuid" ->
             HttpResponse(200, JsonHeaders,
                 BodyObject(ApiUserMetadata(None, None, None, Some(E_exact),
                     None, None, None)))
      [] OTHER -> NetworkError

\* behaviours of the service: the kinds of answer, repeated cyclically over the subjects
ServerPool ==
    { <<"ok">>,
      <<"ok", "error", "okCode", "status500", "html", "okMetaOnly", "badJson",
        "noGuid", "okNoEmail", "nullJson", "status401", "noContentType">>,
      <<"error", "status500">> }

\* the answer to the POST for the i-th subject
ServerResponse(srv, ids, i) == ResponseOfKind(srv[((i - 1) % Len(srv)) + 1], ids[i])

\* outcomes of the warm-up GET
WarmUpPool ==
    { NetworkError,
      HttpResponse(200, << <<S_ContentTypeRaw, CT_html>> >>, BodyInvalid),
      HttpResponse(200, << <<S_SetCookieRaw, C_sid>> >>, BodyInvalid),
      HttpResponse(401, << <<S_SetCookieRaw, C_sid>>, <<S_setCookie, C_b>> >>, BodyInvalid) }

----------------------------------------------------------------------------
(* Metadata resolver: fetchUserMetadata, extractCookieHeader, fetchAllMetadata *)

\* { user_id: idguid, email: '' }
Sentinel(idguid) == UserMetadata(idguid, <<>>, None, None, None)

Truthy_s(o) == IsSome(o) /\ Val(o) # <<>>

RECURSIVE Dedup(_)
\* Array.from(new Set(list)): first occurrences, in order
Dedup(list) ==
    IF list = <<>>
    THEN <<>>
    ELSE LET front == Dedup(SubSeq(list, 1, Len(list) - 1))
             x == list[Len(list)]
         IN  IF x \in SeqToSet(front) THEN front ELSE Append(front, x)

RECURSIVE MetadataEmails(_)
\* the values pushed by the loop over data.Metadata
MetadataEmails(meta) ==
    IF meta = <<>>
    THEN <<>>
    ELSE LET m == meta[1]
             rest == MetadataEmails(Tail(meta))
         IN  IF /\ Truthy_s(m.Name) /\ Truthy_s(m.StoredValue)
                /\ Includes(ToLowerCase(Val(m.Name)), S_email)
                /\ Trim(Val(m.StoredValue)) # <<>>
             THEN <<Trim(Val(m.StoredValue))>> \o rest
             ELSE rest

\* collectedEmails
CollectEmails(data) ==
    (IF Truthy_s(data.Email) /\ Trim(Val(data.Email)) # <<>>
     THEN <<Trim(Val(data.Email))>> ELSE <<>>)
    \o (IF IsSome(data.Metadata) THEN MetadataEmails(Val(data.Metadata)) ELSE <<>>)

\* data.ExternalCode || data.UserName || idguid
ResultUserId(data, idguid) ==
    IF Truthy_s(data.ExternalCode) THEN Val(data.ExternalCode)
    ELSE IF Truthy_s(data.UserName) THEN Val(data.UserName)
    ELSE idguid

\* the canonical email is the Email field of the answer alone
BuildResult_EmailFieldOnly(data, idguid) ==
    LET collectedEmails == CollectEmails(data)
    IN  UserMetadata(ResultUserId(data, idguid),
                     IF Truthy_s(data.Email) THEN Trim(Val(data.Email)) ELSE <<>>,
                     IF Len(collectedEmails) > 0 THEN Some(Dedup(collectedEmails)) ELSE None,
                     IF Truthy_s(data.FirstName) THEN data.FirstName ELSE None,
                     IF Truthy_s(data.LastName) THEN data.LastName ELSE None)

\* the result object built from a parsed body
BuildResult(data, idguid) ==
    LET collectedEmails == CollectEmails(data)
    IN  UserMetadata(ResultUserId(data, idguid),
                     IF Len(collectedEmails) > 0 THEN collectedEmails[1] ELSE <<>>,
                     IF Len(collectedEmails) > 0 THEN Some(Dedup(collectedEmails)) ELSE None,
                     IF Truthy_s(data.FirstName) THEN data.FirstName ELSE None,
                     IF Truthy_s(data.LastName) THEN data.LastName ELSE None)

\* String(response.headers[name] || '')
HeaderString(headers, name) == IF name \in DOMAIN headers THEN headers[name] ELSE <<>>

\* fetchUserMetadata after the await, for a resolved request
ParseResponse(idguid, response) ==
    LET headers == CollectHeaders(response.rawHeaders)
    IN  IF response.status < 200 \/ response.status >= 300
        THEN Sentinel(idguid)
        ELSE IF ~Includes(ToLowerCase(HeaderString(headers, S_contentType)), S_applicationJson)
        THEN Sentinel(idguid)
        ELSE IF response.body.json = "invalid"
        THEN Sentinel(idguid)
        ELSE IF response.body.json = "null" \/ ~Truthy_s(response.body.data.IDGUID)
        THEN Sentinel(idguid)
        ELSE BuildResult(response.body.data, idguid)

\* the value the promise of fetchUserMetadata resolves with
FetchUserMetadataResult(idguid, outcome) ==
    IF outcome.kind = "error" THEN Sentinel(idguid) ELSE ParseResponse(idguid, outcome)

RECURSIVE Join(_, _)
\* list.join(sep)
Join(list, sep) ==
    IF list = <<>> THEN <<>>
    ELSE IF Len(list) = 1 THEN list[1]
    ELSE list[1] \o sep \o Join(Tail(list), sep)

\* the name=value pairs of a list of Set-Cookie values, joined with "; "
CookiePairs(setCookies) ==
    LET firsts == [i \in 1..Len(setCookies) |-> Split(setCookies[i], ";")[1]]
        cookiePairs == SelectSeq(firsts, LAMBDA c : c # <<>>)
    IN  IF Len(cookiePairs) = 0
        THEN None
        ELSE Some(Join(cookiePairs, <<";", " ">>))

\* extractCookieHeader(response.headers['set-cookie']): the value collected by
\* makeNetworkRequest is a string, which is wrapped into a one-element array
ExtractCookieHeader(headers) ==
    IF S_setCookie \notin DOMAIN headers \/ headers[S_setCookie] = <<>>
    THEN None
    ELSE CookiePairs(<<headers[S_setCookie]>>)

\* warmUpAdminSession: the cookie header, undefined when the request failed
WarmUpResult(outcome) ==
    IF outcome.kind = "error"
    THEN None
    ELSE ExtractCookieHeader(CollectHeaders(outcome.rawHeaders))

BatchSize == 10

Min(a, b) == IF a < b THEN a ELSE b

RECURSIVE BatchesFrom(_, _)
\* for (let i = 0; i < idguids.length; i += batchSize) batches.push(idguids.slice(i, i + batchSize))
BatchesFrom(ids, i) ==
    IF i < Len(ids)
    THEN <<SubSeq(ids, i + 1, Min(i + BatchSize, Len(ids)))>> \o BatchesFrom(ids, i + BatchSize)
    ELSE <<>>

MakeBatches(ids) == BatchesFrom(ids, 0)

\* position in idguids of the idx-th element of batch b (batches are consecutive slices)
PosOf(b, idx) == (b - 1) * BatchSize + idx

\* UTF-16 code units of the surrogate ranges, as characters of a string
HighSurrogate == "\\uD800"

LowSurrogate == "\\uDC00"

\* encodeURIComponent(s) throws URIError: s holds a surrogate that is not part of a pair
EncodeURIComponentThrows(s) ==
    \E i \in 1..Len(s) :
        IF s[i] = HighSurrogate THEN (IF i = Len(s) THEN TRUE ELSE s[i + 1] # LowSurrogate)
        ELSE IF s[i] = LowSurrogate THEN (IF i = 1 THEN TRUE ELSE s[i - 1] # HighSurrogate)
        ELSE FALSE

\* a cell text that the workbook parser unescapes to "u" and a lone surrogate
S_malformed == <<"u", HighSurrogate>>

\* a promise of the current batch is rejected: fetchUserMetadata threw before its try
BatchThrows(batch) ==
    \E idx \in 1..Len(batch) : EncodeURIComponentThrows(batch[idx])

\* the base URL of the API, the apiUrl argument of fetchAllMetadata
S_apiUrl == "https://api.test"

\* no POST was sent for the subject yet
NotSent == [state |-> "pending", sent |-> 0, headers |-> [Cookie |-> None, Referer |-> None]]

\* the session headers of a POST: if (cookieHeader) { Cookie, Referer = apiUrl }
PostHeaders(cookie) ==
    IF IsSome(cookie) /\ Len(Val(cookie)) > 0
    THEN [Cookie |-> cookie, Referer |-> Some(S_apiUrl)]
    ELSE [Cookie |-> None, Referer |-> None]

\* the POST of every subject not yet asked for is issued at once
IssueBatch_AllAtOnce(p, bs, b, cookie) ==
    [i \in DOMAIN p |->
        IF p[i].state = "pending"
        THEN [state |-> "inflight", sent |-> p[i].sent + 1, headers |-> PostHeaders(cookie)]
        ELSE p[i]]

\* batch.map(idguid => fetchUserMetadata(...)): every POST of batch b is issued,
\* unless the body of the request cannot be encoded
IssueBatch(p, bs, b, cookie) ==
    [i \in DOMAIN p |->
        IF \E idx \in 1..Len(bs[b]) : PosOf(b, idx) = i
        THEN IF EncodeURIComponentThrows(bs[b][i - PosOf(b, 0)])
             THEN [p[i] EXCEPT !.state = "rejected"]
             ELSE [state |-> "inflight", sent |-> p[i].sent + 1,
                   headers |-> PostHeaders(cookie)]
        ELSE p[i]]

\* results kept in the order in which the promises resolved
SettleResult_ArrivalOrder(res, idx, value) ==
    LET slot == CHOOSE j \in 1..Len(res) :
                    ~IsSome(res[j]) /\ \A l \in 1..(j - 1) : IsSome(res[l])
    IN  [res EXCEPT ![slot] = Some(value)]

\* Promise.all keeps the value of a promise at the index of the promise
SettleResult(res, idx, value) == [res EXCEPT ![idx] = Some(value)]

\* Promise.all resolves when every promise has resolved
AllSettled(res) == \A idx \in 1..Len(res) : IsSome(res[idx])

RECURSIVE MergeResults_SkipEmpty(_, _, _, _)
\* only the results that carry an email are stored
MergeResults_SkipEmpty(m, batch, res, idx) ==
    IF idx > Len(res)
    THEN m
    ELSE LET idguid == batch[idx]
             next == IF idguid # <<>> /\ Val(res[idx]).email # <<>>
                     THEN [k \in DOMAIN m \cup {idguid} |->
                              IF k = idguid THEN Val(res[idx]) ELSE m[k]]
                     ELSE m
         IN  MergeResults_SkipEmpty(next, batch, res, idx + 1)

RECURSIVE MergeResults(_, _, _, _)
\* results.forEach((result, idx) => { const idguid = batch[idx]; if (idguid) metadata.set(idguid, result) })
MergeResults(m, batch, res, idx) ==
    IF idx > Len(res)
    THEN m
    ELSE LET idguid == batch[idx]
             next == IF idguid # <<>>
                     THEN [k \in DOMAIN m \cup {idguid} |->
                              IF k = idguid THEN Val(res[idx]) ELSE m[k]]
                     ELSE m
         IN  MergeResults(next, batch, res, idx + 1)

\* completed = batch.length
CompletedAfter_NotCumulative(done, batch) == Len(batch)

\* completed += batch.length
CompletedAfter(done, batch) == done + Len(batch)

EmptyMap == [k \in {} |-> None]

----------------------------------------------------------------------------
(* workflow:run (src/app/main/ipc/workflowHandlers.ts) and runPipeline     *)
(* (src/unnamed/part_001)                                                  *)

\* " u1 "
S_u1Padded ==
    <<" ", "u", "1", " ">>

RECURSIVE ExtractFrom(_, _, _)
\* the loop of extractIdGuids: the Set keeps the first occurrence of each id
ExtractFrom(data, columnName, found) ==
    IF data = <<>>
    THEN found
    ELSE LET value == ObjGet(data[1], columnName)
             idguid == IF Truthy(value) THEN Trim(JsString(Val(value))) ELSE <<>>
         IN  ExtractFrom(Tail(data), columnName,
                         IF idguid # <<>> /\ idguid \notin SeqToSet(found)
                         THEN Append(found, idguid)
                         ELSE found)

extractIdGuids(data, columnName) == ExtractFrom(data, columnName, <<>>)

\* the map fetchAllMetadata resolves with: every id of every batch is set to
\* the result of its own fetchUserMetadata
fetchAllMetadata(ids, srv) ==
    [id \in SeqToSet(ids) |->
        LET i == CHOOSE j \in 1..Len(ids) : ids[j] = id
        IN  FetchUserMetadataResult(id, ServerResponse(srv, ids, i))]

\* !!(m && (m.email || (m.emails && m.emails.length > 0))): only the entry is looked at
HasAnyEmail_AnyEntry(m) == IsSome(m)

\* !!(m && (m.email || (m.emails && m.emails.length > 0)))
HasAnyEmail(m) ==
    /\ IsSome(m)
    /\ \/ Val(m).email # <<>>
       \/ IsSome(Val(m).emails) /\ Len(Val(Val(m).emails)) > 0

\* the ids pushed by the loop of the coverage gate, in the order of idguids
MissingIds(ids, meta) ==
    SelectSeq(ids, LAMBDA id : ~HasAnyEmail(MapGet(meta, id)))

\* "Total IDs: "
S_TotalIds ==
    <<"T", "o", "t", "a", "l", " ", "I", "D", "s", ":", " ">>

\* "Resolved metadata entries: "
S_ResolvedEntries ==
    <<"R", "e", "s", "o", "l", "v", "e", "d", " ", "m", "e", "t", "a", "d", "a", "t", "a", " ", "e", "n", "t", "r", "i", "e", "s", ":", " ">>

\* "Missing metadata entries: "
S_MissingEntries ==
    <<"M", "i", "s", "s", "i", "n", "g", " ", "m", "e", "t", "a", "d", "a", "t", "a", " ", "e", "n", "t", "r", "i", "e", "s", ":", " ">>

\* "IDs with missing metadata:"
S_IdsWithMissing ==
    <<"I", "D", "s", " ", "w", "i", "t", "h", " ", "m", "i", "s", "s", "i", "n", "g", " ", "m", "e", "t", "a", "d", "a", "t", "a", ":">>

\* reportLines with the number of entries of the metadata map as resolved count
DiagnosticLines_ResolvedIsTotal(ids, missing) ==
    << S_TotalIds \o NumberToString(Len(ids)),
       S_ResolvedEntries \o NumberToString(Len(ids)),
       S_MissingEntries \o NumberToString(Len(missing)),
       <<>>,
       S_IdsWithMissing >> \o missing

\* reportLines, the lines of metadata_diagnostics.txt (written joined by "\n")
DiagnosticLines(ids, missing) ==
    << S_TotalIds \o NumberToString(Len(ids)),
       S_ResolvedEntries \o NumberToString(Len(ids) - Len(missing)),
       S_MissingEntries \o NumberToString(Len(missing)),
       <<>>,
       S_IdsWithMissing >> \o missing

\* validateRows: no rule is implemented
validateRows(rs) == <<>>

\* the stages runPipeline times, in the order of the code
StageOrder == <<"source", "normalize", "enrich", "transform", "validate", "sink">>

\* the requests of the renderer: the first validation that fails, if any,
\* and the extension of inputPath
RequestPool ==
    { [problem |-> None, ext |-> e] : e \in {"xlsx", "csv", "txt"} } \cup
    { [problem |-> Some("Input path is required"), ext |-> "xlsx"],
      [problem |-> Some("Invalid API URL"), ext |-> "csv"] }

\* rows of the input sheet
SheetRowPool ==
    { OrderRow(E_exact, JStr(S_u1), S_regular),
      OrderRow(E_alt, JStr(S_u1Padded), S_regular),
      OrderRow(E_none, JStr(S_u9), S_social_good),
      OrderRow(E_domain, JNum(7), S_regular),
      OrderRow(E_name, JStr(<<>>), S_regular),
      OrderRow(E_none, JStr(S_malformed), S_regular),
      ObjFrom(<< <<"Other", JStr(S_old)>> >>) }

MaxSheetRows == 2

\* the answers of the service to the first and the second subject
RunServicePool ==
    { <<a, b>> : a, b \in {"ok", "okMetaOnly", "okNoEmail", "error"} }

NoFiles == [diagnostics |-> None, runLog |-> FALSE, output |-> None, report |-> None]

\* the locals of runPipeline; thrown is the error its promise is rejected with
NoPipeline == [calls |-> 0, stages |-> <<>>, sourceData |-> <<>>, normalizedData |-> <<>>,
               enrichedData |-> <<>>, transformedData |-> <<>>,
               validationErrors |-> <<>>, result |-> None, thrown |-> None]

IdleRun ==
    /\ wpc = "idle"
    /\ request = [problem |-> None, ext |-> "xlsx"]
    /\ inputFile = None
    /\ service = <<>>
    /\ settings = <<None, None>>
    /\ sourceData = <<>>
    /\ runIdguids = <<>>
    /\ runMetadata = None
    /\ missingIds = <<>>
    /\ pipeline = NoPipeline
    /\ files = NoFiles
    /\ handlerResult = None

----------------------------------------------------------------------------
(* registerIpc (src/app/main/ipc/index.ts, src/app/main/ipc/types.ts) *)

\* the registrars registerIpc calls, in the order of the code
Registrars == <<"network", "connection", "file", "workflow", "system", "settings">>

\* registerDbHandlers is called only when ctx.db is provided
RegistrarsOf(ctx) == IF ctx.db THEN Append(Registrars, "db") ELSE Registrars

RECURSIVE RunRegistrars(_, _)
\* the registrars run one after the other; each installs its handlers with
\* ipcMain.handle, which throws when the channel already has a handler
RunRegistrars(ch, rs) ==
    IF rs = <<>>
    THEN [channels |-> ch, threw |-> FALSE]
    ELSE IF ch[rs[1]] > 0
         THEN [channels |-> ch, threw |-> TRUE]
         ELSE RunRegistrars([ch EXCEPT ![rs[1]] = @ + 1], Tail(rs))

\* isRegistered()
isRegistered == registered

\* what a call of registerIpc(ctx) does: "skipped" when the guard finds the
\* handlers registered, "threw" when a registrar throws, "registered" otherwise
registerIpc(ctx) ==
    IF isRegistered
    THEN [outcome |-> "skipped", channels |-> channels, registered |-> registered]
    ELSE LET run == RunRegistrars(channels, RegistrarsOf(ctx))
         IN  IF run.threw
             THEN [outcome |-> "threw", channels |-> run.channels, registered |-> registered]
             ELSE [outcome |-> "registered", channels |-> run.channels, registered |-> TRUE]

MaxIpcCalls == 4

IdleIpc ==
    /\ registered = FALSE
    /\ channels = [r \in SeqToSet(Registrars) \cup {"db"} |-> 0]
    /\ ipcCalls = <<>>

MaxIds == 25

\* the subject ids of a sheet: "u" followed by the decimal digits of i
IdOf(i) == <<"u">> \o NumberToString(i)

ResponseKinds == UNION {SeqToSet(srv) : srv \in ServerPool}

\* the kind of answer the i-th subject gets
KindAt(srv, i) == srv[((i - 1) % Len(srv)) + 1]

\* FetchUserMetadataResult tabulated over the answers of the service: the value
\* fetchUserMetadata(IdOf(i), ...) resolves with when the answer is of kind k
ResolvedValue ==
    [k \in ResponseKinds |-> [i \in 1..MaxIds |->
        FetchUserMetadataResult(IdOf(i), ResponseOfKind(k, IdOf(i)))]]

\* whether makeNetworkRequest rejects for an answer of kind k
Rejects == [k \in ResponseKinds |-> ResponseOfKind(k, <<>>).kind = "error"]

\* <<behaviour of the service, whether the caller passed onProgress, the
\* position of a malformed id in the list (0: none)>>
ScenarioPool ==
    { <<srv, Len(srv) # 2, 0>> : srv \in ServerPool } \cup
    { <<srv, TRUE, bad>> : srv \in {sv \in ServerPool : Len(sv) = 1},
                           bad \in {2, BatchSize + 2} }

IdleFetch ==
    /\ fpc = "idle"
    /\ idguids = <<>>
    /\ server = <<>>
    /\ onProgress = FALSE
    /\ warmUpResponse = None
    /\ cookieHeader = None
    /\ batches = <<>>
    /\ batchIndex = 0
    /\ post = <<>>
    /\ results = <<>>
    /\ fmetadata = EmptyMap
    /\ completed = 0
    /\ progress = <<>>

\* fetchAllMetadata was called and awaits the warm-up GET
InitFetch ==
    /\ IdleRules
    /\ IdleNet
    /\ IdleRun
    /\ IdleIpc
    /\ fpc = "warmup"
    /\ \E n \in 0..MaxIds, sc \in ScenarioPool :
           /\ idguids = [i \in 1..n |-> IF i = sc[3] THEN S_malformed ELSE IdOf(i)]
           /\ server = sc[1]
           /\ onProgress = sc[2]
    /\ warmUpResponse = None
    /\ cookieHeader = None
    /\ batches = <<>>
    /\ batchIndex = 0
    /\ post = [i \in 1..Len(idguids) |-> NotSent]
    /\ results = <<>>
    /\ fmetadata = EmptyMap
    /\ completed = 0
    /\ progress = <<>>

\* the for-of loop reaches batch b: its requests are issued, or the function returns;
\* when a promise of the batch is already rejected, await Promise.all throws in the
\* same turn, before any answer arrives, and fetchAllMetadata rejects
EnterBatch(b, bs, cookie) ==
    IF b <= Len(bs)
    THEN /\ fpc' = IF BatchThrows(bs[b]) THEN "rejected" ELSE "batch"
         /\ batchIndex' = b
         /\ post' = IssueBatch(post, bs, b, cookie)
         /\ results' = [idx \in 1..Len(bs[b]) |-> None]
    ELSE /\ fpc' = "returned"
         /\ batchIndex' = b
         /\ post' = post
         /\ results' = <<>>

\* the warm-up GET settles: the cookie is kept, the batches are formed, the loop starts
WarmUpSettles(outcome) ==
    /\ fpc = "warmup"
    /\ warmUpResponse' = Some(outcome)
    /\ cookieHeader' = WarmUpResult(outcome)
    /\ batches' = MakeBatches(idguids)
    /\ EnterBatch(1, MakeBatches(idguids), WarmUpResult(outcome))
    /\ UNCHANGED <<idguids, server, onProgress, fmetadata, completed, progress>>

WarmUpResolves ==
    /\ \E outcome \in {w \in WarmUpPool : w.kind = "response"} : WarmUpSettles(outcome)
    /\ UNCHANGED <<rulesVars, netVars, runVars, ipcVars>>

WarmUpRejects ==
    /\ WarmUpSettles(NetworkError)
    /\ UNCHANGED <<rulesVars, netVars, runVars, ipcVars>>

\* the POST for the idx-th subject of the current batch settles and
\* fetchUserMetadata resolves with its result; after Promise.all has rejected the
\* requests already issued still settle, and their results are dropped
PostSettles(idx, kind) ==
    /\ fpc \in {"batch", "rejected"}
    /\ idx \in 1..Len(results)
    /\ LET i == PosOf(batchIndex, idx)
       IN  /\ post[i].state = "inflight"
           /\ Rejects[KindAt(server, i)] = (kind = "error")
           /\ results' = SettleResult(results, idx, ResolvedValue[KindAt(server, i)][i])
           /\ post' = [post EXCEPT ![i].state = "done"]
    /\ UNCHANGED <<fpc, idguids, server, onProgress, warmUpResponse, cookieHeader, batches,
                   batchIndex,
                   fmetadata, completed, progress>>

PostResolves ==
    /\ \E idx \in 1..BatchSize : PostSettles(idx, "response")
    /\ UNCHANGED <<rulesVars, netVars, runVars, ipcVars>>

PostRejects ==
    /\ \E idx \in 1..BatchSize : PostSettles(idx, "error")
    /\ UNCHANGED <<rulesVars, netVars, runVars, ipcVars>>

\* await Promise.all(promises) resumes: results are stored, progress is reported,
\* and the loop goes on to the next batch or the function returns
CompleteBatch ==
    /\ fpc = "batch"
    /\ AllSettled(results)
    /\ fmetadata' = MergeResults(fmetadata, batches[batchIndex], results, 1)
    /\ completed' = CompletedAfter(completed, batches[batchIndex])
    /\ progress' = IF onProgress
                   THEN Append(progress, <<CompletedAfter(completed, batches[batchIndex]),
                                           Len(idguids)>>)
                   ELSE progress
    /\ EnterBatch(batchIndex + 1, batches, cookieHeader)
    /\ UNCHANGED <<idguids, server, onProgress, warmUpResponse, cookieHeader, batches>>
    /\ UNCHANGED <<rulesVars, netVars, runVars, ipcVars>>

NextFetch ==
    \/ WarmUpResolves
    \/ WarmUpRejects
    \/ PostResolves
    \/ PostRejects
    \/ CompleteBatch

SpecFetch == InitFetch /\ [][NextFetch]_vars

----------------------------------------------------------------------------
(* makeNetworkRequest as a process: requests and their events interleave *)

InitNet ==
    /\ IdleNet
    /\ IdleRules
    /\ IdleFetch
    /\ IdleRun
    /\ IdleIpc

StartRequest ==
    /\ \E r \in ReqIds, url \in UrlPool, c \in {None} \cup {Some(x) : x \in CredentialPool} :
           MakeNetworkRequest(r, url, c)
    /\ UNCHANGED <<rulesVars, fetchVars, runVars, ipcVars>>

Challenge ==
    /\ \E r \in ReqIds : OnLogin(r)
    /\ UNCHANGED <<rulesVars, fetchVars, runVars, ipcVars>>

Respond ==
    /\ \E r \in ReqIds : OnResponse(r)
    /\ UNCHANGED <<rulesVars, fetchVars, runVars, ipcVars>>

EndResponse ==
    /\ \E r \in ReqIds : OnEnd(r)
    /\ UNCHANGED <<rulesVars, fetchVars, runVars, ipcVars>>

Fail ==
    /\ \E r \in ReqIds : OnError(r)
    /\ UNCHANGED <<rulesVars, fetchVars, runVars, ipcVars>>

NextNet ==
    \/ StartRequest
    \/ Challenge
    \/ Respond
    \/ EndResponse
    \/ Fail

SpecNet == InitNet /\ [][NextNet]_vars

----------------------------------------------------------------------------
(* applyTransformRules as a process: rows.map visits the rows in order *)

InitRules ==
    /\ rows \in SeqsUpTo(RowPool, MaxRows)
    /\ metadata \in MetadataPool
    /\ \E st \in SettingsPool : domainKeywords = st[1] /\ companyName = st[2]
    /\ transformedData = <<>>
    /\ tpc = "map"
    /\ IdleNet
    /\ IdleFetch
    /\ IdleRun
    /\ IdleIpc

\* one call of the map callback
TransformStep ==
    /\ tpc = "map"
    /\ Len(transformedData) < Len(rows)
    /\ transformedData' =
           Append(transformedData,
                  TransformedRow[rows[Len(transformedData) + 1]][metadata]
                                [<<domainKeywords, companyName>>])
    /\ UNCHANGED <<rows, metadata, domainKeywords, companyName, tpc>>
    /\ UNCHANGED <<netVars, fetchVars, runVars, ipcVars>>

\* rows.map returns
TransformReturn ==
    /\ tpc = "map"
    /\ Len(transformedData) = Len(rows)
    /\ tpc' = "returned"
    /\ UNCHANGED <<rows, metadata, domainKeywords, companyName, transformedData>>
    /\ UNCHANGED <<netVars, fetchVars, runVars, ipcVars>>

NextRules ==
    \/ TransformStep
    \/ TransformReturn

SpecRules == InitRules /\ [][NextRules]_vars

----------------------------------------------------------------------------
(* workflow:run as a process: one action per step between two awaits *)

InitRun ==
    /\ IdleRules
    /\ IdleNet
    /\ IdleFetch
    /\ IdleIpc
    /\ wpc = "request"
    /\ request \in RequestPool
    /\ inputFile \in {None} \cup {Some(sh) : sh \in SeqsUpTo(SheetRowPool, MaxSheetRows)}
    /\ service \in RunServicePool
    /\ settings \in {st \in SettingsPool : IsSome(st[1])}
    /\ sourceData = <<>>
    /\ runIdguids = <<>>
    /\ runMetadata = None
    /\ missingIds = <<>>
    /\ pipeline = NoPipeline
    /\ files = NoFiles
    /\ handlerResult = None

\* the catch block of the handler
HandlerCatch(message) ==
    /\ wpc' = "returned"
    /\ handlerResult' = Some([ok |-> FALSE, reportPath |-> "", error |-> Some(message)])

\* the checks of the request
ValidateRequest ==
    /\ wpc = "request"
    /\ IF IsSome(request.problem)
       THEN HandlerCatch(Val(request.problem))
       ELSE wpc' = "read" /\ handlerResult' = handlerResult
    /\ UNCHANGED <<request, inputFile, service, settings, sourceData, runIdguids,
                   runMetadata, missingIds, pipeline, files>>
    /\ UNCHANGED <<rulesVars, netVars, fetchVars, ipcVars>>

\* the input file is read and parsed, the ids are extracted
ReadInput ==
    /\ wpc = "read"
    /\ IF request.ext \notin {"xlsx", "xls", "csv"}
       THEN /\ HandlerCatch("Unsupported file type")
            /\ UNCHANGED <<sourceData, runIdguids>>
       ELSE IF ~IsSome(inputFile)
       THEN /\ HandlerCatch("ENOENT")
            /\ UNCHANGED <<sourceData, runIdguids>>
       ELSE /\ sourceData' = Val(inputFile)
            /\ runIdguids' = extractIdGuids(Val(inputFile), "User Name")
            /\ wpc' = "fetch"
            /\ handlerResult' = handlerResult
    /\ UNCHANGED <<request, inputFile, service, settings, runMetadata, missingIds,
                   pipeline, files>>
    /\ UNCHANGED <<rulesVars, netVars, fetchVars, ipcVars>>

\* await fetchAllMetadata(idguids, request.apiUrl, credentials || undefined) throws:
\* the batch of an id that cannot be encoded was reached
FetchRejects ==
    /\ wpc = "fetch"
    /\ BatchThrows(runIdguids)
    /\ HandlerCatch("URI malformed")
    /\ UNCHANGED <<request, inputFile, service, settings, sourceData, runIdguids,
                   runMetadata, missingIds, pipeline, files>>
    /\ UNCHANGED <<rulesVars, netVars, fetchVars, ipcVars>>

\* await fetchAllMetadata(idguids, request.apiUrl, credentials || undefined) resumes
FetchReturns ==
    /\ wpc = "fetch"
    /\ ~BatchThrows(runIdguids)
    /\ runMetadata' = Some(fetchAllMetadata(runIdguids, service))
    /\ wpc' = "gate"
    /\ UNCHANGED <<request, inputFile, service, settings, sourceData, runIdguids,
                   missingIds, pipeline, files, handlerResult>>
    /\ UNCHANGED <<rulesVars, netVars, fetchVars, ipcVars>>

\* the coverage gate finds ids without email: the diagnostic is written, the handler returns
GateFails ==
    /\ wpc = "gate"
    /\ MissingIds(runIdguids, Val(runMetadata)) # <<>>
    /\ missingIds' = MissingIds(runIdguids, Val(runMetadata))
    /\ files' = [files EXCEPT !.diagnostics =
                     Some(DiagnosticLines(runIdguids, MissingIds(runIdguids, Val(runMetadata))))]
    /\ wpc' = "returned"
    /\ handlerResult' = Some([ok |-> FALSE, reportPath |-> "",
                         error |-> Some("Metadata incomplete")])
    /\ UNCHANGED <<request, inputFile, service, settings, sourceData, runIdguids,
                   runMetadata, pipeline>>
    /\ UNCHANGED <<rulesVars, netVars, fetchVars, ipcVars>>

\* the coverage gate finds no such id: runPipeline is called and awaits the input file
GatePasses ==
    /\ wpc = "gate"
    /\ MissingIds(runIdguids, Val(runMetadata)) = <<>>
    /\ missingIds' = <<>>
    /\ pipeline' = [pipeline EXCEPT !.calls = @ + 1]
    /\ files' = [files EXCEPT !.runLog = TRUE]
    /\ wpc' = "source"
    /\ UNCHANGED <<request, inputFile, service, settings, sourceData, runIdguids,
                   runMetadata, handlerResult>>
    /\ UNCHANGED <<rulesVars, netVars, fetchVars, ipcVars>>

\* a stage of runPipeline ends and its timing is recorded
StageDone(stage, next) ==
    /\ wpc = stage
    /\ wpc' = next
    /\ UNCHANGED <<request, inputFile, service, settings, sourceData, runIdguids,
                   runMetadata, missingIds, handlerResult>>
    /\ UNCHANGED <<rulesVars, netVars, fetchVars, ipcVars>>

\* the catch block of runPipeline: the log is closed, the error is thrown again
PipelineThrows(stage, message) ==
    /\ wpc = stage
    /\ wpc' = "thrown"
    /\ pipeline' = [pipeline EXCEPT !.thrown = Some(message)]
    /\ UNCHANGED <<request, inputFile, service, settings, sourceData, runIdguids,
                   runMetadata, missingIds, files, handlerResult>>
    /\ UNCHANGED <<rulesVars, netVars, fetchVars, ipcVars>>

\* stage 1: the input file is read again
PipelineSource ==
    /\ StageDone("source", "normalize")
    /\ pipeline' = [pipeline EXCEPT !.stages = Append(@, "source"),
                                    !.sourceData = Val(inputFile)]
    /\ files' = files

\* stage 1 fails: the input file can no longer be read
PipelineSourceThrows ==
    PipelineThrows("source", "ENOENT")

\* stage 2: const normalizedData = sourceData
PipelineNormalize ==
    /\ StageDone("normalize", "enrich")
    /\ pipeline' = [pipeline EXCEPT !.stages = Append(@, "normalize"),
                                    !.normalizedData = pipeline.sourceData]
    /\ files' = files

\* stage 3 keeps only the rows that name a subject
PipelineEnrich_DropsRows ==
    /\ StageDone("enrich", "transform")
    /\ pipeline' = [pipeline EXCEPT !.stages = Append(@, "enrich"),
                                    !.enrichedData =
                                        SelectSeq(pipeline.normalizedData,
                                                  LAMBDA row : HasKey(row, "User Name"))]
    /\ files' = files

\* stage 3: const enrichedData = normalizedData
PipelineEnrich ==
    /\ StageDone("enrich", "transform")
    /\ pipeline' = [pipeline EXCEPT !.stages = Append(@, "enrich"),
                                    !.enrichedData = pipeline.normalizedData]
    /\ files' = files

\* stage 4
PipelineTransform ==
    /\ StageDone("transform", "validate")
    /\ pipeline' = [pipeline EXCEPT
                       !.stages = Append(@, "transform"),
                       !.transformedData =
                           applyTransformRules(pipeline.enrichedData, runMetadata,
                                               settings[1], settings[2])]
    /\ files' = files

\* stage 5
PipelineValidate ==
    /\ StageDone("validate", "sink")
    /\ pipeline' = [pipeline EXCEPT
                       !.stages = Append(@, "validate"),
                       !.validationErrors = validateRows(pipeline.transformedData)]
    /\ files' = files

\* stage 6: writeXlsx or writeCsv writes the output file
PipelineSink ==
    /\ Len(pipeline.transformedData) > 0
    /\ StageDone("sink", "report")
    /\ pipeline' = [pipeline EXCEPT !.stages = Append(@, "sink")]
    /\ files' = [files EXCEPT !.output = Some(pipeline.transformedData)]

\* stage 6 fails and the error is only logged: the run goes on to the report
PipelineSinkThrows_Swallowed ==
    /\ StageDone("sink", "report")
    /\ pipeline' = [pipeline EXCEPT !.stages = Append(@, "sink")]
    /\ files' = files

\* stage 6 fails: the writer refuses an empty dataset before it writes, or the
\* file cannot be written
PipelineSinkThrows ==
    IF Len(pipeline.transformedData) = 0
    THEN PipelineThrows("sink", "Cannot write empty dataset")
    ELSE PipelineThrows("sink", "EACCES")

\* { in, out, errors } with errors taken from the rows written
Counts_ErrorsFromOut(source, transformed, errors) ==
    [in |-> Len(source), out |-> Len(transformed), errors |-> Len(transformed)]

\* { in, out, errors }
Counts(source, transformed, errors) ==
    [in |-> Len(source), out |-> Len(transformed), errors |-> Len(errors)]

\* the result is built and returned, report.json is left out
PipelineReport_NotWritten ==
    /\ StageDone("report", "result")
    /\ pipeline' = [pipeline EXCEPT !.result =
           Some([ok |-> Len(pipeline.validationErrors) = 0,
                 counts |-> Counts(pipeline.sourceData, pipeline.transformedData,
                                   pipeline.validationErrors),
                 timings |-> pipeline.stages])]
    /\ files' = files

\* the result is built, report.json is written, runPipeline returns
PipelineReport ==
    /\ StageDone("report", "result")
    /\ LET result == [ok |-> Len(pipeline.validationErrors) = 0,
                      counts |-> Counts(pipeline.sourceData, pipeline.transformedData,
                                        pipeline.validationErrors),
                      timings |-> pipeline.stages]
       IN  /\ pipeline' = [pipeline EXCEPT !.result = Some(result)]
           /\ files' = [files EXCEPT !.report = Some(result)]

\* the output cannot be read back for the hash, or report.json cannot be written
PipelineReportThrows ==
    PipelineThrows("report", "EACCES")

\* await runPipeline(config) resumes and the handler returns
HandlerReturns ==
    /\ wpc = "result"
    /\ wpc' = "returned"
    /\ handlerResult' = Some([ok |-> Val(pipeline.result).ok, reportPath |-> "report.json",
                         error |-> None])
    /\ UNCHANGED <<request, inputFile, service, settings, sourceData, runIdguids,
                   runMetadata, missingIds, pipeline, files>>
    /\ UNCHANGED <<rulesVars, netVars, fetchVars, ipcVars>>

\* await runPipeline(config) throws into the catch block of the handler
HandlerCatchesPipeline ==
    /\ wpc = "thrown"
    /\ HandlerCatch(Val(pipeline.thrown))
    /\ UNCHANGED <<request, inputFile, service, settings, sourceData, runIdguids,
                   runMetadata, missingIds, pipeline, files>>
    /\ UNCHANGED <<rulesVars, netVars, fetchVars, ipcVars>>

NextRun ==
    \/ ValidateRequest
    \/ ReadInput
    \/ FetchReturns
    \/ FetchRejects
    \/ GateFails
    \/ GatePasses
    \/ PipelineSource
    \/ PipelineSourceThrows
    \/ PipelineNormalize
    \/ PipelineEnrich
    \/ PipelineTransform
    \/ PipelineValidate
    \/ PipelineSink
    \/ PipelineSinkThrows
    \/ PipelineReport
    \/ PipelineReportThrows
    \/ HandlerReturns
    \/ HandlerCatchesPipeline

SpecRun == InitRun /\ [][NextRun]_vars

----------------------------------------------------------------------------
(* registerIpc as a process: the main process calls it, a reload calls it again *)

InitIpc ==
    /\ IdleRules
    /\ IdleNet
    /\ IdleFetch
    /\ IdleRun
    /\ IdleIpc

\* a call of registerIpc(ctx)
RegisterIpc ==
    /\ Len(ipcCalls) < MaxIpcCalls
    /\ \E db \in BOOLEAN :
           LET call == registerIpc([db |-> db])
           IN  /\ registered' = call.registered
               /\ channels' = call.channels
               /\ ipcCalls' = Append(ipcCalls, [db |-> db, outcome |-> call.outcome])
    /\ UNCHANGED <<rulesVars, netVars, fetchVars, runVars>>

\* a call of resetRegistration()
ResetRegistration ==
    /\ registered' = FALSE
    /\ UNCHANGED <<channels, ipcCalls>>
    /\ UNCHANGED <<rulesVars, netVars, fetchVars, runVars>>

NextIpc ==
    \/ RegisterIpc
    \/ ResetRegistration

SpecIpc == InitIpc /\ [][NextIpc]_vars

----------------------------------------------------------------------------
(* Claims about workflow:run *)

\* an extracted id has no entry, or an entry with empty email and no alternates
Uncovered(id) ==
    \/ id \notin DOMAIN Val(runMetadata)
    \/ /\ Val(runMetadata)[id].email = <<>>
       /\ \/ Val(runMetadata)[id].emails = None
          \/ Val(Val(runMetadata)[id].emails) = <<>>

C12_EveryInvocationWritesReport ==
    (wpc = "returned" /\ pipeline.calls > 0) => IsSome(files.report)

\* C12 amended: an invocation of runPipeline that returns a result has written
\* that result to report.json before it returns, after all six stages;
\* an invocation in which a stage throws leaves no report.
C12_ReportIffResultReturned ==
    /\ wpc \in {"result", "returned"} /\ IsSome(pipeline.result) =>
           /\ files.report = pipeline.result
           /\ IsSome(files.output)
    /\ IsSome(pipeline.thrown) => files.report = None /\ pipeline.result = None
    /\ IsSome(files.report) => pipeline.stages = StageOrder

\* C12 witness: the handler returned the result of a run whose report is on disk.
C12_ReportWritten ==
    /\ wpc = "returned"
    /\ pipeline.calls = 1
    /\ IsSome(pipeline.result)
    /\ files.report = pipeline.result
    /\ Val(handlerResult).error = None

C14_FailuresSurfaced ==
    /\ IsSome(pipeline.thrown) => pipeline.result = None
    /\ wpc = "returned" =>
           /\ IsSome(pipeline.thrown) =>
                  /\ Val(handlerResult).ok = FALSE
                  /\ Val(handlerResult).error = pipeline.thrown
           /\ missingIds # <<>> =>
                  /\ Val(handlerResult).ok = FALSE
                  /\ IsSome(Val(handlerResult).error)
           /\ pipeline.stages # StageOrder => Val(handlerResult).ok = FALSE
           /\ Val(handlerResult).ok =>
                  /\ pipeline.calls = 1
                  /\ pipeline.stages = StageOrder
                  /\ files.output = Some(pipeline.transformedData)
                  /\ IsSome(files.report)
                  /\ \A i \in 1..Len(runIdguids) : ~Uncovered(runIdguids[i])

\* C14 witness: the sink refused an empty row set and the handler returned
\* ok=false with that message.
C14_SinkFailureReturned ==
    /\ wpc = "returned"
    /\ pipeline.thrown = Some("Cannot write empty dataset")
    /\ pipeline.stages = SubSeq(StageOrder, 1, 5)
    /\ Val(handlerResult) = [ok |-> FALSE, reportPath |-> "",
                             error |-> Some("Cannot write empty dataset")]

\* C20: stage order. The stages timed so far are an initial part of Source,
\* Normalize, Enrich, Transform, Validate, Sink, so each ran at most once and
\* after its predecessor; the stage being executed is the next one of that
\* order; a returned result has timings for exactly the six stages; Normalize
\* and Enrich hand on the rows of Source unchanged, and Transform yields one
\* record per row.
C20_StageOrder ==
    /\ Len(pipeline.stages) <= Len(StageOrder)
    /\ \A i \in 1..Len(pipeline.stages) : pipeline.stages[i] = StageOrder[i]
    /\ \A i \in 1..Len(StageOrder) :
           wpc = StageOrder[i] => Len(pipeline.stages) = i - 1 /\ pipeline.calls = 1
    /\ IsSome(pipeline.result) => Val(pipeline.result).timings = StageOrder
    /\ Len(pipeline.stages) >= 2 => pipeline.normalizedData = pipeline.sourceData
    /\ Len(pipeline.stages) >= 3 => pipeline.enrichedData = pipeline.sourceData
    /\ Len(pipeline.stages) >= 4 =>
           Len(pipeline.transformedData) = Len(pipeline.sourceData)

\* C20 witness: runPipeline returned a result for a sheet of two rows, one of
\* them without User Name column, after the six stages.
C20_SixStagesTimed ==
    /\ wpc = "result"
    /\ Val(pipeline.result).timings = StageOrder
    /\ Len(pipeline.enrichedData) = 2
    /\ \E k \in 1..2 : ~HasKey(pipeline.enrichedData[k], "User Name")

\* the id a row of the input asks for: the trimmed text of its User Name cell
IdOfRow(k) ==
    LET value == ObjGet(sourceData[k], "User Name")
    IN  IF Truthy(value) THEN Trim(JsString(Val(value))) ELSE <<>>

\* the first row of the input that asks for the id
FirstRow(id) ==
    CHOOSE k \in 1..Len(sourceData) :
        /\ IdOfRow(k) = id
        /\ \A j \in 1..(k - 1) : IdOfRow(j) # id

C17_OneOfTwoMissing ==
    /\ IsSome(files.diagnostics)
    /\ Len(Val(files.diagnostics)) = 6
    /\ Val(files.diagnostics)[1] = S_TotalIds \o <<"2">>
    /\ Val(files.diagnostics)[2] = S_ResolvedEntries \o <<"1">>

----------------------------------------------------------------------------
(* Claims about applyTransformRules *)

\* the value of a field of an output record, as an optional cell
Field(i, name) == ObjGet(transformedData[i], name)

\* the rule of highest priority whose condition holds for input row i is n
FirstMatchIs(i, n) ==
    /\ RuleMatches(n, rows[i], metadata, domainKeywords)
    /\ \A m \in 1..(n - 1) : ~RuleMatches(m, rows[i], metadata, domainKeywords)

\* C2: rule precedence. For every transformed row the reported Decision is
\* "Y" and the reported Reason is that of the first rule, in the order
\* exact-email, name, domain, category, whose condition holds; in particular
\* a row with an exact email match reports "Email matches user metadata".
C2_RulePrecedence ==
    \A i \in 1..Len(transformedData) :
        \A n \in 1..4 :
            FirstMatchIs(i, n) =>
                /\ Field(i, "Decision") = Some(JStr(S_Y))
                /\ Field(i, "Reason") =
                       Some(JStr(ReasonOf(n, rows[i], metadata, companyName)))
                /\ (n = 1 => Field(i, "Reason") = Some(JStr(S_EmailMatches)))

\* C3: decision invariant. In every transformed row Decision is "Y" or "N";
\* it is "Y" exactly when at least one of the four rules matched the input
\* row, and otherwise it is "N" with Reason "No verification rule matched".
C3_DecisionInvariant ==
    \A i \in 1..Len(transformedData) :
        LET matched == \E n \in 1..4 : RuleMatches(n, rows[i], metadata, domainKeywords)
        IN  /\ Field(i, "Decision") \in {Some(JStr(S_Y)), Some(JStr(S_N))}
            /\ (Field(i, "Decision") = Some(JStr(S_Y))) <=> matched
            /\ ~matched => /\ Field(i, "Decision") = Some(JStr(S_N))
                           /\ Field(i, "Reason") = Some(JStr(S_NoRule))

\* C4: field preservation. One record per input row, in input order; each
\* record has Decision and Reason as its first two fields, followed by every
\* original field with its original name and value in the original order.
C4_FieldPreservation ==
    /\ tpc = "returned" => Len(transformedData) = Len(rows)
    /\ \A i \in 1..Len(transformedData) :
           /\ Len(transformedData[i]) = Len(rows[i]) + 2
           /\ transformedData[i][1].k = "Decision"
           /\ transformedData[i][2].k = "Reason"
           /\ \A j \in 1..Len(rows[i]) : transformedData[i][j + 2] = rows[i][j]

\* the position of the last "@" of an address
LastAt(s) ==
    CHOOSE k \in 1..Len(s) : s[k] = "@" /\ \A j \in (k + 1)..Len(s) : s[j] # "@"

\* the domain part of an address: the text after its last "@"
DomainPart(s) == SubSeq(s, LastAt(s) + 1, Len(s))

\* the email has an "@" and a configured keyword occurs, whatever the case, in its domain part
KeywordInDomain(email, keywords) ==
    /\ \E k \in 1..Len(email) : email[k] = "@"
    /\ IsSome(keywords)
    /\ \E i \in 1..Len(Val(keywords)) :
           Includes(ToLowerCase(DomainPart(email)), ToLowerCase(Val(keywords)[i]))

\* "Email is under X domain", X the company name or "company"
UnderDomainReason(company) ==
    S_UnderPrefix \o (IF IsSome(company) /\ Val(company) # <<>> THEN Val(company) ELSE S_company)
                  \o S_UnderSuffix

\* C18: corporate-domain rule. The rule matches a row iff the row email has an
\* "@" and a configured keyword is, case-insensitively, a substring of the
\* email's domain part; metadata plays no part; it never matches with an empty
\* or absent keyword list. When it is the rule that decides a row (without a
\* Reason column of its own), the Reason is "Email is under X domain" with X
\* the company name, or "company" when the name is empty or absent.
C18_CorporateDomainRule ==
    \A i \in 1..Len(transformedData) :
        LET email == CellString(rows[i], "Email Address")
            matches == RuleMatches(3, rows[i], metadata, domainKeywords)
        IN  /\ matches <=> KeywordInDomain(email, domainKeywords)
            /\ matches = RuleMatches(3, rows[i], None, domainKeywords)
            /\ (~IsSome(domainKeywords) \/ Val(domainKeywords) = <<>>) => ~matches
            /\ (FirstMatchIs(i, 3) /\ ~HasKey(rows[i], "Reason")) =>
                   Field(i, "Reason") = Some(JStr(UnderDomainReason(companyName)))

\* C18 for addresses with exactly one "@": the statement of the claim holds
C18_SingleAtAddresses ==
    \A i \in 1..Len(transformedData) :
        LET email == CellString(rows[i], "Email Address")
            matches == RuleMatches(3, rows[i], metadata, domainKeywords)
        IN  Cardinality({k \in 1..Len(email) : email[k] = "@"}) <= 1 =>
                /\ matches <=> KeywordInDomain(email, domainKeywords)
                /\ matches = RuleMatches(3, rows[i], None, domainKeywords)
                /\ (~IsSome(domainKeywords) \/ Val(domainKeywords) = <<>>) => ~matches
                /\ (FirstMatchIs(i, 3) /\ ~HasKey(rows[i], "Reason")) =>
                       Field(i, "Reason") = Some(JStr(UnderDomainReason(companyName)))

----------------------------------------------------------------------------
(* Claims about makeNetworkRequest *)

Started(r) == req[r].state # "none"

\* the challenges of request r that were answered with explicit credentials
ExplicitAnswers(r) == {i \in 1..Len(req[r].answers) : req[r].answers[i].explicit}

\* C8: single-shot authentication. Within one request explicit credentials
\* answer at most one challenge and every later challenge of that request is
\* answered without credentials; the attempt flag belongs to the request: it
\* is unset until this request itself has supplied credentials.
C8_SingleShotAuth ==
    \A r \in ReqIds :
        Started(r) =>
            /\ Cardinality(ExplicitAnswers(r)) <= 1
            /\ \A i \in ExplicitAnswers(r) :
                   \A j \in (i + 1)..Len(req[r].answers) : req[r].answers[j] = Ambient
            /\ req[r].authAttempted <=> ExplicitAnswers(r) # {}

\* C8 witness: a second challenge arrived while credentials were still stored
\* for the origin, and was answered without them.
C8_SecondChallengeSeen ==
    \E r \in ReqIds :
        /\ Started(r)
        /\ Len(req[r].answers) = 2
        /\ req[r].answers[1].explicit
        /\ req[r].answers[2] = Ambient
        /\ IsSome(pendingAuthRequests[req[r].baseUrl])

\* every request started against the origin of r carries the Credential of r
\* (the fan-out of one batch)
SameCredentialFanOut(r) ==
    \A q \in ReqIds :
        (Started(q) /\ req[q].baseUrl = req[r].baseUrl) =>
            req[q].credentials = req[r].credentials

\* C9: credential supply under fan-out. A request issued with a Credential
\* answers its first challenge with that Credential (realm\principal, or the
\* bare principal for an empty realm, and the secret), whatever the other
\* requests of the fan-out to the same origin did in between.
C9_CredentialSuppliedOnFirstChallenge ==
    \A r \in ReqIds :
        ( /\ Started(r)
          /\ IsSome(req[r].credentials)
          /\ SameCredentialFanOut(r)
          /\ Len(req[r].answers) >= 1 ) =>
            req[r].answers[1] =
                Explicit(FormatUsername(Val(req[r].credentials)),
                         Val(req[r].credentials).password)

\* C10: a request issued without a Credential never answers a challenge with
\* explicit credentials.
C10_NoCredentialNoExplicitAnswer ==
    \A r \in ReqIds :
        (Started(r) /\ ~IsSome(req[r].credentials)) => ExplicitAnswers(r) = {}

----------------------------------------------------------------------------
(* Claims about fetchAllMetadata *)

\* the answer to a POST is usable: 2xx, JSON content type, an object with IDGUID
UsableAnswer(outcome) ==
    /\ outcome.kind = "response"
    /\ outcome.status \in 200..299
    /\ \E h \in 1..Len(outcome.rawHeaders) :
           /\ ToLowerCase(outcome.rawHeaders[h][1]) = S_contentType
           /\ Includes(ToLowerCase(outcome.rawHeaders[h][2]), S_applicationJson)
    /\ outcome.body.json = "object"
    /\ Truthy_s(outcome.body.data.IDGUID)

\* C11: per-subject failures are absorbed. No promise of fetchUserMetadata is
\* rejected and fetchAllMetadata never rejects; a subject whose request
\* failed, or whose answer is not a 2xx JSON object with IDGUID, gets the
\* sentinel of its id (empty email, no alternates), and the other subjects
\* of its batch keep their own results.
C11_FailuresAbsorbed ==
    /\ fpc # "rejected"
    /\ \A i \in 1..Len(post) : post[i].state # "rejected"
    /\ fpc = "batch" =>
           \A idx \in 1..Len(results) :
               IsSome(results[idx]) =>
                   LET i == PosOf(batchIndex, idx)
                       outcome == ServerResponse(server, idguids, i)
                   IN  IF UsableAnswer(outcome)
                       THEN Val(results[idx]) = ParseResponse(idguids[i], outcome)
                       ELSE Val(results[idx]) =
                                [user_id |-> idguids[i], email |-> <<>>, emails |-> None,
                                 first_name |-> None, last_name |-> None]

NumIds == Len(idguids)

\* the batches whose await Promise.all has resumed
BatchesCompleted ==
    CASE fpc = "returned" -> Len(batches)
      [] fpc = "batch"    -> batchIndex - 1
      [] fpc = "rejected" -> batchIndex - 1
      [] OTHER            -> 0

\* the positions in idguids of the subjects of the k-th batch of ten
PositionsOfBatch(k) == {i \in 1..NumIds : (i - 1) \div BatchSize = k - 1}

\* C5: batching and progress. n ids form ceil(n/10) consecutive batches in
\* list order, each of ten ids except possibly the last; the progress
\* callback is called once per batch, after the batch completed, the k-th
\* call with (min(10k, n), n); when fetchAllMetadata has ended every batch
\* had its call and the last call reports (n, n); for n = 0 there is no call.
C5_BatchingAndProgress ==
    /\ fpc \in {"batch", "returned", "rejected"} =>
           /\ Len(batches) = (NumIds + BatchSize - 1) \div BatchSize
           /\ \A b \in 1..Len(batches) :
                  /\ Len(batches[b]) = Cardinality(PositionsOfBatch(b))
                  /\ b < Len(batches) => Len(batches[b]) = BatchSize
                  /\ Len(batches[b]) \in 1..BatchSize
                  /\ \A idx \in 1..Len(batches[b]) :
                         batches[b][idx] = idguids[(b - 1) * BatchSize + idx]
    /\ Len(progress) = IF onProgress THEN BatchesCompleted ELSE 0
    /\ \A k \in 1..Len(progress) :
           /\ progress[k] = <<Min(BatchSize * k, NumIds), NumIds>>
           /\ \A i \in PositionsOfBatch(k) : post[i].state = "done"
           /\ k > 1 => progress[k][1] > progress[k - 1][1]
    /\ (fpc \in {"returned", "rejected"} /\ onProgress /\ NumIds > 0) =>
           /\ Len(progress) = Len(batches)
           /\ progress[Len(progress)] = <<NumIds, NumIds>>

\* C5 witness: 25 ids were resolved with the three calls (10,25), (20,25), (25,25).
C5_ThreeCallsFor25 ==
    /\ fpc = "returned"
    /\ NumIds = 25
    /\ progress = << <<10, 25>>, <<20, 25>>, <<25, 25>> >>

\* the metadata each subject gets when its answer is parsed on its own
ExpectedMetadata ==
    [id \in SeqToSet(idguids) |->
        LET i == CHOOSE j \in 1..NumIds : idguids[j] = id
        IN  FetchUserMetadataResult(id, ServerResponse(server, idguids, i))]

\* C6: batches are strictly ordered. No request of a later batch is issued
\* before every request of each earlier batch has completed, and the map
\* returned is the same for every completion order inside the batches.
C6_BatchesStrictlyOrdered ==
    /\ \A b \in 2..((NumIds + BatchSize - 1) \div BatchSize) :
           (\E j \in PositionsOfBatch(b) : post[j].state # "pending") =>
               \A i \in 1..((b - 1) * BatchSize) : post[i].state = "done"
    /\ fpc = "returned" => fmetadata = ExpectedMetadata

\* C6 witness: a request of the second batch is in flight after the first
\* batch completed with its last request settling first.
C6_SecondBatchInFlight ==
    /\ fpc = "batch"
    /\ batchIndex = 2
    /\ \E j \in PositionsOfBatch(2) : post[j].state = "done"
    /\ \E j \in PositionsOfBatch(2) : j > BatchSize + 1 /\ post[j].state = "done"
                                      /\ post[BatchSize + 1].state = "inflight"

\* C7: result completeness. The returned map has an entry for every requested
\* id; an id without a usable answer has an entry with empty email and no
\* alternates.
C7_ResultCompleteness ==
    fpc = "returned" =>
        \A i \in 1..NumIds :
            /\ idguids[i] \in DOMAIN fmetadata
            /\ ~UsableAnswer(ServerResponse(server, idguids, i)) =>
                   /\ fmetadata[idguids[i]].email = <<>>
                   /\ fmetadata[idguids[i]].emails = None

\* C7 witness: a map was returned for more than one batch of ids, some with
\* a usable answer, some rejected by the parser, some failed in transport.
C7_MixedOutcomesReturned ==
    /\ fpc = "returned"
    /\ NumIds > BatchSize
    /\ \E i \in 1..NumIds : UsableAnswer(ServerResponse(server, idguids, i))
    /\ \E i \in 1..NumIds : ServerResponse(server, idguids, i).kind = "error"
    /\ \E i \in 1..NumIds :
           /\ ServerResponse(server, idguids, i).kind = "response"
           /\ ~UsableAnswer(ServerResponse(server, idguids, i))

\* C16: in the map returned, the entry stored under a requested id carries that
\* id as user_id, never a code of the server, and it is the metadata fetched
\* for that id.
C16_UserIdIsRequestedId ==
    fpc = "returned" =>
        \A i \in 1..NumIds :
            /\ idguids[i] \in DOMAIN fmetadata
            /\ fmetadata[idguids[i]].user_id = idguids[i]
            /\ fmetadata[idguids[i]] = ResolvedValue[KindAt(server, i)][i]

----------------------------------------------------------------------------
(* Claims about registerIpc *)

\* C19: double-registration guard. Every call of registerIpc after the first
\* throws an error, and no registrar has installed its handlers twice.
C19_SecondCallThrows ==
    /\ \A k \in 2..Len(ipcCalls) : ipcCalls[k].outcome = "threw"
    /\ \A r \in DOMAIN channels : channels[r] <= 1

\* the second half of C19 alone: no registrar has installed its handlers twice
C19_HandlersRegisteredOnce ==
    \A r \in DOMAIN channels : channels[r] <= 1

----------------------------------------------------------------------------
(* Claims about the session and the termination of fetchAllMetadata *)

\* every request issued so far has completed: the warm-up GET and every POST
AllRequestsCompleted ==
    /\ fpc # "warmup"
    /\ \A i \in 1..NumIds : post[i].state # "inflight"

\* a request of the batch the loop waits for is still without answer
BatchRequestOutstanding ==
    /\ fpc \in {"batch", "rejected"}
    /\ \E i \in PositionsOfBatch(batchIndex) : post[i].state = "inflight"

\* C21: termination without retry. No POST is sent twice. Once every request
\* issued has completed and the last await has resumed, fetchAllMetadata has
\* returned, after the one warm-up GET and exactly one POST for every
\* requested id. While a request of the current batch is outstanding, no
\* POST of a later batch has been sent, the progress callback has been called
\* only for the earlier batches, and the call has not returned.
C21_TerminatesWithoutRetry ==
    /\ \A i \in 1..NumIds : post[i].sent <= 1
    /\ (AllRequestsCompleted /\ fpc # "batch") =>
           /\ fpc = "returned"
           /\ \A i \in 1..NumIds : post[i].sent = 1 /\ post[i].state = "done"
    /\ BatchRequestOutstanding =>
           /\ \A j \in 1..NumIds : j > batchIndex * BatchSize => post[j] = NotSent
           /\ Len(progress) = (IF onProgress THEN batchIndex - 1 ELSE 0)
           /\ fpc # "returned"

\* the part of C21 that holds: requests are never repeated, a call that
\* returned has sent one POST per id, and an outstanding request blocks the loop
C21_NoRetryAndBlocking ==
    /\ \A i \in 1..NumIds : post[i].sent <= 1
    /\ fpc = "returned" => \A i \in 1..NumIds : post[i].sent = 1 /\ post[i].state = "done"
    /\ BatchRequestOutstanding =>
           /\ \A j \in 1..NumIds : j > batchIndex * BatchSize => post[j] = NotSent
           /\ Len(progress) = (IF onProgress THEN batchIndex - 1 ELSE 0)
           /\ fpc # "returned"

\* every request issued has completed and the call has ended by rejecting,
\* with subjects for which no POST was ever sent
C21_EndedWithoutAllPosts ==
    /\ AllRequestsCompleted
    /\ fpc = "rejected"
    /\ \E i \in 1..NumIds : post[i].sent = 0
    /\ \E i \in 1..NumIds : post[i].sent = 1

\* the session headers every POST must carry, given what the warm-up returned
SessionHeaders ==
    IF IsSome(cookieHeader)
    THEN [Cookie |-> cookieHeader, Referer |-> Some(S_apiUrl)]
    ELSE [Cookie |-> None, Referer |-> None]

\* C22: warm-up failure is non-fatal. No POST is sent while the warm-up GET is
\* awaited. Whatever the warm-up gave (a network error, a response without
\* cookie, a response with cookie), once the run has ended a POST was sent for
\* every requested id. Every POST sent carries the cookie of the warm-up as
\* Cookie and the base URL as Referer when a cookie was obtained, and neither
\* header when none was obtained.
C22_WarmUpThenSessionHeaders ==
    /\ fpc = "warmup" => \A i \in 1..NumIds : post[i] = NotSent
    /\ (AllRequestsCompleted /\ fpc # "batch") => \A i \in 1..NumIds : post[i].sent = 1
    /\ \A i \in 1..NumIds : post[i].sent = 1 => post[i].headers = SessionHeaders

\* the part of C22 that holds: the warm-up comes first, a call that returned
\* has sent a POST for every id, and every POST sent carries the session headers
C22_HeadersOfSentPosts ==
    /\ fpc = "warmup" => \A i \in 1..NumIds : post[i] = NotSent
    /\ fpc = "returned" => \A i \in 1..NumIds : post[i].sent = 1
    /\ \A i \in 1..NumIds : post[i].sent = 1 => post[i].headers = SessionHeaders

\* the warm-up failed and the call ended with a subject for which no POST was sent
C22_NoCookieAndPostMissing ==
    /\ AllRequestsCompleted
    /\ fpc = "rejected"
    /\ ~IsSome(cookieHeader)
    /\ \E i \in 1..NumIds : post[i].sent = 0

\* two batches were sent with the cookie of the warm-up, and the call returned
C22_CookieOnBothBatches ==
    /\ fpc = "returned"
    /\ NumIds > BatchSize
    /\ IsSome(cookieHeader)
    /\ \A i \in 1..NumIds : post[i].headers.Cookie = cookieHeader

\* the values of the Set-Cookie headers of a response, in the order received
SetCookieValues(rawHeaders) ==
    LET at == SelectSeq([i \in 1..Len(rawHeaders) |-> i],
                        LAMBDA i : ToLowerCase(rawHeaders[i][1]) = S_setCookie)
    IN  [k \in 1..Len(at) |-> rawHeaders[at[k]][2]]

\* for every Set-Cookie header the text before its first ';', joined with "; "
CookieOfAllDirectives ==
    [w \in {x \in WarmUpPool : x.kind = "response"} |->
        LET values == SetCookieValues(w.rawHeaders)
            pairs == [k \in 1..Len(values) |-> Split(values[k], ";")[1]]
        IN  IF Len(pairs) = 0 THEN None ELSE Some(Join(pairs, <<";", " ">>))]

\* the number of Set-Cookie headers of the warm-up response
NumSetCookies ==
    [w \in {x \in WarmUpPool : x.kind = "response"} |-> Len(SetCookieValues(w.rawHeaders))]

\* the warm-up GET was answered
WarmUpAnswered == IsSome(warmUpResponse) /\ Val(warmUpResponse).kind = "response"

\* C23: cookie extraction. The Cookie header built from the warm-up response
\* holds, for every Set-Cookie header of the response, the name=value pair
\* before its first ';', in the order received, joined with "; ": for a
\* response with one Set-Cookie header and for a response with several.
C23_CookieHoldsEveryPair ==
    WarmUpAnswered => cookieHeader = CookieOfAllDirectives[Val(warmUpResponse)]

\* the part of C23 that holds: a response with at most one Set-Cookie header
C23_SingleSetCookie ==
    (WarmUpAnswered /\ NumSetCookies[Val(warmUpResponse)] <= 1) =>
        cookieHeader = CookieOfAllDirectives[Val(warmUpResponse)]

\* the warm-up response had two Set-Cookie headers and the cookie is "b=2",
\* the pair of the last one alone
C23_OnlyLastPairKept ==
    /\ WarmUpAnswered
    /\ NumSetCookies[Val(warmUpResponse)] = 2
    /\ cookieHeader = Some(C_b)

----------------------------------------------------------------------------
(* Claims about the rules of applyTransformRules *)

\* the email of the row, lower-cased and trimmed
NormalisedRowEmail(row) == Trim(ToLowerCase(CellString(row, "Email Address")))

\* the metadata of the subject of the row has the normalised address e as its
\* canonical email or among its alternates
HasNormalisedEmail(row, meta, e) ==
    LET userMeta == Val(UserMetaOf(row, meta))
    IN  \/ Trim(ToLowerCase(userMeta.email)) = e
        \/ /\ IsSome(userMeta.emails)
           /\ \E k \in 1..Len(Val(userMeta.emails)) :
                  Trim(ToLowerCase(Val(userMeta.emails)[k])) = e

\* the condition of the exact-email rule, for every row and metadata map of the pools
ExactEmailCondition ==
    [row \in RowPool |-> [meta \in MetadataPool |->
        /\ IsSome(UserMetaOf(row, meta))
        /\ NormalisedRowEmail(row) # <<>>
        /\ HasNormalisedEmail(row, meta, NormalisedRowEmail(row))]]

\* C24: exact email match. For every transformed row the exact-email rule is
\* the rule that fired exactly when the subject of the row has metadata, the
\* email of the row, lower-cased and trimmed, is not empty, and it equals the
\* normalised canonical email or a normalised alternate email of the metadata.
C24_ExactEmailMatch ==
    \A i \in 1..Len(transformedData) :
        (FiredRuleOf[rows[i]][metadata][<<domainKeywords, companyName>>] = 1) <=>
            ExactEmailCondition[rows[i]][metadata]

\* a row whose email differs from the canonical email in case and surrounding
\* blanks was matched, and so was a row holding an alternate email, while a
\* row of a subject whose metadata has no email was not
C24_NormalisedAndAlternateMatched ==
    /\ Len(transformedData) = 2
    /\ CellString(rows[1], "Email Address") = E_exactCase
    /\ CellString(rows[2], "Email Address") = E_alt
    /\ FiredRule(rows[1], metadata, domainKeywords) = 1
    /\ FiredRule(rows[2], metadata, domainKeywords) = 1
    /\ IsSome(Val(UserMetaOf(rows[1], metadata)).emails)

\* the pieces of the lower-cased local part of an email, split by each of the
\* four separators alone, without surrounding blanks and without empty pieces
NameTokens(email) ==
    IF ~Includes(email, <<"@">>)
    THEN {}
    ELSE LET localPart == ToLowerCase(Split(email, "@")[1])
             pieces == UNION {SeqToSet(Split(localPart, sep)) : sep \in {".", "_", "-", "+"}}
         IN  {Trim(piece) : piece \in pieces} \ {<<>>}

\* the word w equals a token or is a substring of a token
InSomeToken(w, tokens) == w \in tokens \/ \E t \in tokens : Includes(t, w)

\* the name, or when it contains white space one of its words, is in a token
NameInTokens(name, tokens) ==
    LET n == Trim(ToLowerCase(name))
    IN  \/ InSomeToken(n, tokens)
        \/ /\ \E c \in 1..Len(n) : IsWhiteSpace(n[c])
           /\ \E w \in SeqToSet(SplitWhiteSpace(n)) : InSomeToken(w, tokens)

\* the first and last names present in the metadata of the subject of row i
NamesOf(i) ==
    LET userMeta == Val(UserMetaOf(rows[i], metadata))
    IN  {Val(o) : o \in {x \in {userMeta.first_name, userMeta.last_name} :
                            IsSome(x) /\ Val(x) # <<>>}}

\* C25: name-derived match. For every transformed row, extractNameParts gives
\* the set of lower-cased non-empty pieces of the local part of the row email,
\* split by '.', '_', '-' and '+' separately (the empty set without '@'), and
\* the name rule matches exactly when the subject has metadata and its first
\* or last name, lower-cased and trimmed, equals or is a substring of a piece,
\* or contains white space and one of its words equals or is a substring of a
\* piece.
C25_NameDerivedMatch ==
    \A i \in 1..Len(transformedData) :
        LET email == CellString(rows[i], "Email Address")
        IN  /\ extractNameParts(email) = NameTokens(email)
            /\ RuleMatches(2, rows[i], metadata, domainKeywords) <=>
                   /\ IsSome(UserMetaOf(rows[i], metadata))
                   /\ \E name \in NamesOf(i) : NameInTokens(name, NameTokens(email))

\* the name has white space other than a blank and no blank
OnlyOtherWhiteSpace(name) ==
    LET n == Trim(ToLowerCase(name))
    IN  /\ \E c \in 1..Len(n) : IsWhiteSpace(n[c])
        /\ \A c \in 1..Len(n) : n[c] # " "

\* the part of C25 that holds: rows of subjects whose names are single words
\* or words separated by blanks
C25_BlankSeparatedNames ==
    \A i \in 1..Len(transformedData) :
        LET email == CellString(rows[i], "Email Address")
        IN  /\ extractNameParts(email) = NameTokens(email)
            /\ (IsSome(UserMetaOf(rows[i], metadata)) =>
                    \A name \in NamesOf(i) : ~OnlyOtherWhiteSpace(name)) =>
                (RuleMatches(2, rows[i], metadata, domainKeywords) <=>
                   /\ IsSome(UserMetaOf(rows[i], metadata))
                   /\ \E name \in NamesOf(i) : NameInTokens(name, NameTokens(email)))

\* a row with the email jo.x@corp.co of a subject called "Jo<tab>Ann" was
\* transformed, and the name rule did not match it
C25_TabSeparatedNameMissed ==
    /\ Len(transformedData) >= 1
    /\ CellString(rows[1], "Email Address") = E_name
    /\ IsSome(UserMetaOf(rows[1], metadata))
    /\ S_JoTabAnn \in NamesOf(1)
    /\ ~RuleMatches(2, rows[1], metadata, domainKeywords)

\* the name is absent from the metadata or empty once trimmed
BlankName(o) == ~IsSome(o) \/ Trim(Val(o)) = <<>>

\* C30: the name rule never fires on an empty name. For every transformed row
\* of a subject whose first name and last name are both absent or made of
\* white space only, the name rule does not match, whatever the email.
C30_BlankNamesNeverMatch ==
    \A i \in 1..Len(transformedData) :
        LET userMeta == UserMetaOf(rows[i], metadata)
        IN  (/\ IsSome(userMeta)
             /\ BlankName(Val(userMeta).first_name)
             /\ BlankName(Val(userMeta).last_name)) =>
                /\ ~RuleMatches(2, rows[i], metadata, domainKeywords)
                /\ FiredRule(rows[i], metadata, domainKeywords) # 2

\* the part of C30 that holds: a subject without first and last name
C30_AbsentNamesNeverMatch ==
    \A i \in 1..Len(transformedData) :
        LET userMeta == UserMetaOf(rows[i], metadata)
        IN  (/\ IsSome(userMeta)
             /\ Val(userMeta).first_name \in {None, Some(<<>>)}
             /\ Val(userMeta).last_name \in {None, Some(<<>>)}) =>
                ~RuleMatches(2, rows[i], metadata, domainKeywords)

\* the row z@x.co of a subject whose names are " " was decided by the name rule
C30_BlankNameFired ==
    /\ Len(transformedData) >= 1
    /\ CellString(rows[1], "Email Address") = E_none
    /\ IsSome(UserMetaOf(rows[1], metadata))
    /\ Val(UserMetaOf(rows[1], metadata)).first_name = Some(S_blank)
    /\ FiredRule(rows[1], metadata, domainKeywords) = 2
    /\ Field(1, "Decision") = Some(JStr(S_Y))

----------------------------------------------------------------------------
(* Claims about the subject lookup of the run *)

\* the transform stage of the run has been applied to the rows
Transformed == \E k \in 1..Len(pipeline.stages) : pipeline.stages[k] = "transform"

\* the rows given to the transform stage whose 'User Name' is not blank
RowsNamingSubject ==
    {k \in 1..Len(pipeline.enrichedData) :
        LET value == ObjGet(pipeline.enrichedData[k], "User Name")
        IN  Truthy(value) /\ Trim(JsString(Val(value))) # <<>>}

\* C26: subject lookup is consistent between extraction and transform. Once
\* the gate has passed and the rows are transformed, for every row with a
\* non-blank 'User Name' the key applyTransformRules looks up is one of the
\* ids extractIdGuids returned, and the row is evaluated with its metadata.
C26_LookupKeyIsExtractedId ==
    Transformed =>
        \A k \in RowsNamingSubject :
            /\ CellString(pipeline.enrichedData[k], "User Name") \in SeqToSet(runIdguids)
            /\ IsSome(UserMetaOf(pipeline.enrichedData[k], runMetadata))

\* the part of C26 that holds: rows whose 'User Name' has no surrounding blanks
C26_TrimmedCellsLookedUp ==
    Transformed =>
        \A k \in RowsNamingSubject :
            LET value == JsString(Val(ObjGet(pipeline.enrichedData[k], "User Name")))
            IN  Trim(value) = value =>
                    /\ CellString(pipeline.enrichedData[k], "User Name") \in SeqToSet(runIdguids)
                    /\ IsSome(UserMetaOf(pipeline.enrichedData[k], runMetadata))

\* a row with the cell " u1 " passed the gate as subject u1 and was
\* transformed without metadata
C26_PaddedCellWithoutMetadata ==
    /\ Transformed
    /\ \E k \in RowsNamingSubject :
           /\ CellString(pipeline.enrichedData[k], "User Name") = S_u1Padded
           /\ S_u1 \in SeqToSet(runIdguids)
           /\ ~IsSome(UserMetaOf(pipeline.enrichedData[k], runMetadata))

\* the entries of the map fetchAllMetadata returned to the handler
FetchedEntries == {Val(runMetadata)[id] : id \in DOMAIN Val(runMetadata)}

\* C27: every entry fetchUserMetadata produced has a non-empty canonical
\* email exactly when it has a non-empty list of alternate emails, and then
\* the canonical email is the first alternate; so the test of the gate (email
\* or non-empty alternates) is true exactly when the canonical email is not
\* empty.
C27_CanonicalIsFirstAlternate ==
    IsSome(runMetadata) =>
        \A m \in FetchedEntries :
            /\ (m.email # <<>>) <=> (IsSome(m.emails) /\ Len(Val(m.emails)) > 0)
            /\ m.email # <<>> => m.email = Val(m.emails)[1]
            /\ HasAnyEmail(Some(m)) <=> (m.email # <<>>)

\* the gate has failed on a map with an entry whose canonical email comes from
\* the metadata list of the answer, and an entry without any email
C27_GateSawBothKinds ==
    /\ IsSome(runMetadata)
    /\ IsSome(files.diagnostics)
    /\ \E m \in FetchedEntries : m.email = E_alt /\ m.emails = Some(<<E_alt>>)
    /\ \E m \in FetchedEntries : m.email = <<>> /\ m.emails = None

----------------------------------------------------------------------------
(* Claims about the pending credentials of makeNetworkRequest *)

\* the requests started against the origin
RequestsTo(origin) == {r \in ReqIds : Started(r) /\ req[r].baseUrl = origin}

\* the request has finished: its response ended or it failed
Finished(r) == req[r].state \in {"resolved", "rejected"}

\* C28: no credential outlives its requests. For every origin, once every
\* request started against it has finished (response ended, or error), the
\* map of pending credentials has no entry for that origin.
C28_NoCredentialOutlivesRequests ==
    \A origin \in BaseUrls :
        (RequestsTo(origin) # {} /\ \A r \in RequestsTo(origin) : Finished(r)) =>
            pendingAuthRequests[origin] = None

\* two requests with credentials to one origin have finished, one by the end
\* of its response and one by an error, after a challenge was answered with
\* the stored credentials
C28_BothFinishedAfterChallenge ==
    \E origin \in BaseUrls :
        /\ Cardinality(RequestsTo(origin)) = 2
        /\ \A r \in RequestsTo(origin) : IsSome(req[r].credentials)
        /\ \E r \in RequestsTo(origin) : req[r].state = "resolved" /\ ExplicitAnswers(r) # {}
        /\ \E r \in RequestsTo(origin) : req[r].state = "rejected"
        /\ pendingAuthRequests[origin] = None

----------------------------------------------------------------------------
(* Claims about the concurrency of fetchAllMetadata *)

\* the subjects whose POST was sent and has not completed
InFlight == {i \in 1..NumIds : post[i].state = "inflight"}

\* C29: bounded concurrency. At every moment at most 10 POSTs are in flight,
\* none is in flight while the warm-up GET is pending, and all the POSTs in
\* flight belong to the same batch.
C29_BoundedConcurrency ==
    /\ Cardinality(InFlight) <= 10
    /\ fpc = "warmup" => InFlight = {}
    /\ \A i, j \in InFlight : (i - 1) \div 10 = (j - 1) \div 10

\* the ten POSTs of the second batch of a list of more than twenty ids are in flight
C29_FullSecondBatchInFlight ==
    /\ NumIds > 20
    /\ fpc = "batch"
    /\ InFlight = 11..20

====
